---- MODULE Spec2Model ----
(***************************************************************************)
(* ElkEngine memory core: the lock-free StackAllocator                     *)
(* (Private/Core/Memory/StackAllocator.cpp, Public/.../StackAllocator.h,   *)
(* Public/.../IAllocator.h).                                               *)
(*                                                                         *)
(* One allocator object is shared by the threads of Threads.  Every atomic *)
(* access of the source (load, store, compare_exchange_weak, fetch_add) is *)
(* one step of the model; the locals of a call live in per-thread          *)
(* variables that carry the names of the source.  size_t and uintptr_t     *)
(* are WordBits wide and all arithmetic on them wraps modulo 2^WordBits.   *)
(***************************************************************************)
EXTENDS Integers, Naturals, Sequences, FiniteSets, TLC

(***************************************************************************)
(* Bounds of the model.                                                    *)
(***************************************************************************)
\* width of size_t / uintptr_t in bits
WordBits == 16
\* Allocate calls that may be in flight or counted: caps m_allocationCount
MaxAllocs == 3
\* depth of nested StackAllocatorScope objects per thread
MaxScopes == 2

Modulus == 2 ^ WordBits
Word == 0 .. (Modulus - 1)

Threads == {"t1", "t2"}

(***************************************************************************)
(* Program constants.                                                      *)
(***************************************************************************)
\* nullptr
NULL == 0
\* sizeof(AllocationHeader): size_t, size_t, uint32_t, uint32_t
HeaderBytes == 24
\* m_offset(0), m_peakUsage(0), m_allocationCount(0), m_casRetryCount(0)
InitialOffset == 0

(***************************************************************************)
(* Inputs.  Sizes holds the rejected size 0, small and large requests and  *)
(* a request close to the largest value of size_t; Alignments holds 0, a   *)
(* non power of two and powers of two; Markers holds values below, inside  *)
(* and above the capacities.                                               *)
(***************************************************************************)
Capacities == {1024}
Bases == {16, 24}
Sizes == {0, 1, 1000, Modulus - 50}
Alignments == {0, 16, 24}
Markers == {0, 16, 1025}

(***************************************************************************)
(* Machine arithmetic.                                                     *)
(***************************************************************************)
AddW(a, b) == (a + b) % Modulus
SubW(a, b) == (a - b + Modulus) % Modulus
NotW(a) == (Modulus - 1) - a

RECURSIVE AndBits(_, _, _)
AndBits(a, b, n) ==
    IF n = 0 THEN 0
    ELSE ((a % 2) * (b % 2)) + 2 * AndBits(a \div 2, b \div 2, n - 1)

AndW(a, b) == AndBits(a, b, WordBits)

Max(a, b) == IF a >= b THEN a ELSE b
Min(a, b) == IF a <= b THEN a ELSE b

(***************************************************************************)
(* IAllocator helpers.                                                     *)
(***************************************************************************)
\* (size + alignment - 1) & ~(alignment - 1)
AlignUp(sz, al) == AndW(SubW(AddW(sz, al), 1), NotW(SubW(al, 1)))

\* IsPowerOfTwo without its test value > 0
IsPowerOfTwoZero(value) == AndW(value, SubW(value, 1)) = 0

\* value > 0 && (value & (value - 1)) == 0
IsPowerOfTwo(value) == value > 0 /\ AndW(value, SubW(value, 1)) = 0


(***************************************************************************)
(* MemoryConfig.h.  The sizes of the MemoryManager are counted in KiB:     *)
(* every size constant of MemoryConfig.h is a whole number of KiB, and     *)
(* DefaultEditor reserves 2^31 bytes.  size_t is ZoneWordBits wide on      *)
(* these counts and its arithmetic wraps modulo 2^ZoneWordBits.            *)
(***************************************************************************)
\* width in bits of a size_t that counts KiB
ZoneWordBits == 24
\* calls of AllocateOSMemory
MaxInits == 2
\* sub-blocks carved from the zones
MaxCarves == 2
MaxReturns == 2

ZoneModulus == 2 ^ ZoneWordBits
AddZ(a, b) == (a + b) % ZoneModulus
SubZ(a, b) == (a - b + ZoneModulus) % ZoneModulus
MulZ(a, b) == (a * b) % ZoneModulus

\* namespace sizes
KB == 1
MB == 1024 * KB
GB == 1024 * MB
MIN_TINY_ALLOCATOR == 64 * KB
MIN_SMALL_ALLOCATOR == 256 * KB
MIN_MEDIUM_ALLOCATOR == 1 * MB
MIN_LARGE_ALLOCATOR == 16 * MB
MAX_ALLOCATOR_SIZE == 256 * MB
DEFAULT_STACK_SIZE == 2 * MB
DEFAULT_POOL_SIZE == 4 * MB
DEFAULT_HEAP_SIZE == 32 * MB
DEFAULT_THREAD_SIZE == 1 * MB
ABSOLUTE_MIN == 4 * KB

\* enum class MemoryZone
FrameTemp == 0
ThreadLocal == 1
Entities == 2
Physics == 3
Rendering == 4
Assets == 5
Audio == 6
General == 7
Debug == 8
Count == 9
MemoryZone == 0 .. (Count - 1)

\* MemoryBudget::ZoneAllocation; percentage is the float in hundredths
ZoneAllocation(z, pct, mn, mx, grow) ==
    [zone |-> z, percentage |-> pct, minSize |-> mn, maxSize |-> mx, canGrow |-> grow]

\* a default-constructed MemoryBudget: totalSize = 1 GB, no zoneAllocations
DefaultBudget == [totalSize |-> 1 * GB, zoneAllocations |-> << >>]

DefaultGameEngine ==
    [totalSize |-> 1 * GB,
     zoneAllocations |-> <<
        ZoneAllocation(FrameTemp,    5,  4 * MB,   32 * MB,  TRUE),
        ZoneAllocation(ThreadLocal,  3,  2 * MB,   16 * MB,  TRUE),
        ZoneAllocation(Entities,    20,  32 * MB,  256 * MB, TRUE),
        ZoneAllocation(Physics,     10,  16 * MB,  128 * MB, TRUE),
        ZoneAllocation(Rendering,   25,  64 * MB,  384 * MB, TRUE),
        ZoneAllocation(Assets,      30,  128 * MB, 512 * MB, FALSE),
        ZoneAllocation(Audio,        5,  8 * MB,   64 * MB,  TRUE),
        ZoneAllocation(General,     10,  16 * MB,  128 * MB, TRUE),
        ZoneAllocation(Debug,        2,  2 * MB,   16 * MB,  TRUE) >>]

DefaultEditor ==
    [totalSize |-> 2 * GB,
     zoneAllocations |-> <<
        ZoneAllocation(FrameTemp,    3,  8 * MB,   64 * MB,  TRUE),
        ZoneAllocation(ThreadLocal,  2,  4 * MB,   32 * MB,  TRUE),
        ZoneAllocation(Entities,    15,  64 * MB,  384 * MB, TRUE),
        ZoneAllocation(Physics,      5,  16 * MB,  128 * MB, TRUE),
        ZoneAllocation(Rendering,   20,  128 * MB, 512 * MB, TRUE),
        ZoneAllocation(Assets,      40,  256 * MB, 1 * GB,   FALSE),
        ZoneAllocation(Audio,        3,  8 * MB,   64 * MB,  TRUE),
        ZoneAllocation(General,     10,  32 * MB,  256 * MB, TRUE),
        ZoneAllocation(Debug,        2,  4 * MB,   32 * MB,  TRUE) >>]

DefaultMobile ==
    [totalSize |-> 512 * MB,
     zoneAllocations |-> <<
        ZoneAllocation(FrameTemp,    5,  2 * MB,   8 * MB,   TRUE),
        ZoneAllocation(ThreadLocal,  2,  1 * MB,   4 * MB,   TRUE),
        ZoneAllocation(Entities,    20,  16 * MB,  64 * MB,  TRUE),
        ZoneAllocation(Physics,     10,  8 * MB,   32 * MB,  TRUE),
        ZoneAllocation(Rendering,   25,  32 * MB,  128 * MB, TRUE),
        ZoneAllocation(Assets,      30,  64 * MB,  192 * MB, FALSE),
        ZoneAllocation(Audio,        5,  4 * MB,   16 * MB,  TRUE),
        ZoneAllocation(General,      8,  8 * MB,   32 * MB,  TRUE),
        ZoneAllocation(Debug,        0,  0,        0,        FALSE) >>]

\* a budget of the caller's own: two zones, not in the order of the enum
CustomBudget ==
    [totalSize |-> 64 * MB,
     zoneAllocations |-> <<
        ZoneAllocation(Debug,       50,  1 * MB,   64 * MB,  FALSE),
        ZoneAllocation(FrameTemp,   25,  1 * MB,   64 * MB,  FALSE) >>]

Budgets == {DefaultGameEngine, DefaultEditor, DefaultMobile, CustomBudget}

\* significant bits of a float (FLT_MANT_DIG), the type of percentage
MantissaBits == 24

RECURSIVE BitLength(_)
BitLength(n) == IF n = 0 THEN 0 ELSE 1 + BitLength(n \div 2)

\* a / b rounded to the nearest integer, halves to the even one
RoundHalfEven(a, b) ==
    LET q == a \div b
        r == a % b
    IN  IF 2 * r > b \/ (2 * r = b /\ q % 2 = 1) THEN q + 1 ELSE q

\* the conversion of totalSize to float: MantissaBits significant bits
ToFloat(n) ==
    LET drop == BitLength(n) - MantissaBits
    IN  IF drop <= 0 THEN n ELSE RoundHalfEven(n, 2 ^ drop) * (2 ^ drop)

\* the whole part of the float product f * (pct / 100): the exact product is
\* rounded to MantissaBits significant bits, then cut to size_t
ProductCut(f, pct) ==
    LET p == f * pct
        k == p \div 100
        r == p % 100
        drop == BitLength(k) - MantissaBits
        unit == 2 ^ (1 - drop)
    IN  IF drop > 0 THEN RoundHalfEven(p, 100 * (2 ^ drop)) * (2 ^ drop)
        ELSE IF unit > 100 THEN k
        ELSE IF (100 - r) * unit < 100 THEN k + 1
        ELSE IF (100 - r) * unit = 100 /\ (drop < 0 \/ k % 2 = 1) THEN k + 1
        ELSE k

\* the product computed exactly, then cut
CalculatedExact(totalSize, pct) == (totalSize * pct) \div 100

\* static_cast<size_t>(totalSize * alloc.percentage): totalSize is converted
\* to float, the product is a float, the cast cuts its fraction
Calculated(totalSize, pct) == ProductCut(ToFloat(totalSize), pct)

\* the two clamps in the other order
ClampZoneSizeMaxFirst(calculatedSize, mn, mx) ==
    LET lowered == IF calculatedSize > mx THEN mx ELSE calculatedSize
    IN  IF lowered < mn THEN mn ELSE lowered

\* the two clamps of GetZoneSize, in their order
ClampZoneSize(calculatedSize, mn, mx) ==
    LET raised == IF calculatedSize < mn THEN mn ELSE calculatedSize
    IN  IF raised > mx THEN mx ELSE raised

\* MemoryBudget::GetZoneSize: the first entry of the zone decides; 0 without one
GetZoneSize(budget, z) ==
    LET za == budget.zoneAllocations
        hits == {i \in 1 .. Len(za) : za[i].zone = z}
    IN  IF hits = {} THEN 0
        ELSE LET alloc == za[CHOOSE i \in hits : \A j \in hits : i <= j]
             IN  ClampZoneSize(Calculated(budget.totalSize, alloc.percentage),
                               alloc.minSize, alloc.maxSize)

\* enum class AllocatorType, the types MemoryManager creates
AllocatorTypes == {"Stack", "Pool", "Heap", "Linear"}

\* MemorySizeValidator::ValidateSize
ValidateSize(requestedSize, type) ==
    IF requestedSize < ABSOLUTE_MIN THEN FALSE
    ELSE CASE type = "Stack" ->
                  requestedSize >= MIN_SMALL_ALLOCATOR /\ requestedSize <= MAX_ALLOCATOR_SIZE
           [] type = "Pool" ->
                  requestedSize >= 4 * KB /\ requestedSize <= MAX_ALLOCATOR_SIZE
           [] type = "Heap" ->
                  requestedSize >= MIN_MEDIUM_ALLOCATOR /\ requestedSize <= MAX_ALLOCATOR_SIZE
           [] type = "ThreadLocal" ->
                  requestedSize >= MIN_SMALL_ALLOCATOR /\ requestedSize <= MIN_LARGE_ALLOCATOR
           [] type = "Linear" ->
                  requestedSize >= MIN_TINY_ALLOCATOR /\ requestedSize <= MAX_ALLOCATOR_SIZE
           [] OTHER -> TRUE

\* MemorySizeValidator::AdjustToRecommended
AdjustToRecommended(requestedSize, type) ==
    IF ValidateSize(requestedSize, type) THEN requestedSize
    ELSE CASE type = "Stack" -> DEFAULT_STACK_SIZE
           [] type = "Pool" -> DEFAULT_POOL_SIZE
           [] type = "Heap" -> DEFAULT_HEAP_SIZE
           [] type = "ThreadLocal" -> DEFAULT_THREAD_SIZE
           [] type = "Linear" -> MIN_MEDIUM_ALLOCATOR
           [] OTHER -> MIN_MEDIUM_ALLOCATOR

(***************************************************************************)
(* State.                                                                  *)
(***************************************************************************)
VARIABLES
    \* StackAllocator members
    m_memory, m_size, m_offset, m_peakUsage, m_allocationCount, m_casRetryCount,
    \* sizeof(AllocationHeader) under ELK_DEBUG, 0 otherwise
    headerSize,
    \* per thread: position in the running call, the call and its arguments
    pc, op, size, alignment, marker,
    \* per thread: locals of Allocate, Rewind and UpdatePeakUsage
    currentOffset, alignedOffset, newOffset, peak,
    \* per thread: value returned by the call, read while pc is "done"
    ret,
    \* per thread: the StackAllocatorScope objects alive on the thread's stack
    scopes,
    \* history: ranges [lo, hi) reserved by Allocate and not given back by
    \* Reset or Rewind since
    live,
    \* history: largest value m_offset has had
    maxUsed,
    \* history: cursor of an allocator constructed when Reset last returned
    \* and given the same Allocate calls since; -1 when none is tracked
    fresh,
    \* history: only Allocate calls were begun since construction, with the
    \* sums of their sizes and of their worst-case footprints
    allocOnly, sumSizes, sumFootprint,
    \* history: the allocation ids WriteDebugHeader has written into headers
    \* since construction
    allocIds

(***************************************************************************)
(* State of the MemoryManager (Public/.../MemoryManager.h, lines 216-230). *)
(***************************************************************************)
VARIABLES
    \* MemoryManager members; zones_ maps a zone to its ZoneData
    initialized_, globalMemory_, globalMemorySize_, budget_, zones_,
    allocators_, peakUsage_, totalAllocatorCount_,
    \* per thread: the zone argument of the running call, and the size
    \* arguments a Create*Allocator call was given
    zone, requested,
    \* per thread: locals of CalculateActualUsage (total and the position of
    \* its loop) and of MemoryManager::UpdatePeakUsage
    total, zoneIndex, currentPeak,
    \* history: calls of AllocateOSMemory, blocks it returned that FreeOSMemory
    \* has not been given, sub-blocks handed out since the last successful
    \* Initialize, the calls made to carve and to return so far
    osCalls, osLive, issued, callCount,
    \* history, per thread: the manager as it was when Initialize was called,
    \* the cursors and used bytes of the zones as they were when a
    \* Create*Allocator was called
    entry,
    \* history: the largest sum the used bytes of all zones have had
    maxTotal

manager == <<initialized_, globalMemory_, globalMemorySize_, budget_, zones_,
             allocators_, peakUsage_, totalAllocatorCount_>>
managerCall == <<zone, requested>>
managerLocals == <<total, zoneIndex, currentPeak>>
managerHistory == <<osCalls, osLive, issued, callCount, entry, maxTotal>>
managerVars == <<manager, managerCall, managerLocals, managerHistory>>

\* what no StackAllocator operation writes: its memory, its capacity, the
\* build's header size, and the MemoryManager
object == <<m_memory, m_size, headerSize, managerVars>>
counters == <<m_offset, m_peakUsage, m_allocationCount, m_casRetryCount>>
call == <<op, size, alignment, marker>>
locals == <<currentOffset, alignedOffset, newOffset, peak>>
history == <<live, maxUsed, fresh, allocOnly, sumSizes, sumFootprint, allocIds>>
vars == <<object, counters, pc, call, locals, ret, scopes, history>>

\* a thread is inside a call from the call's first step to its return
Running(u) == pc[u] \notin {"idle", "done"}
Quiescent == \A u \in Threads : ~Running(u)
Alone(t) == \A u \in Threads \ {t} : ~Running(u)

(***************************************************************************)
(* The MemoryManager before Initialize: the static instance of Instance(), *)
(* lines 23-26, with the member initializers of MemoryManager.h 216-230.   *)
(***************************************************************************)
\* a ZoneData of the zero-initialized zones_ array
EmptyZone ==
    [baseAddress |-> NULL, totalSize |-> 0, usedSize |-> 0, offset |-> 0,
     canGrow |-> FALSE, mutex |-> "free"]

ManagerInit ==
    /\ initialized_ = FALSE
    /\ globalMemory_ = NULL
    /\ globalMemorySize_ = 0
    /\ budget_ = DefaultBudget
    /\ zones_ = [z \in MemoryZone |-> EmptyZone]
    /\ allocators_ = << >>
    /\ peakUsage_ = 0
    /\ totalAllocatorCount_ = 0
    /\ zone = [t \in Threads |-> 0]
    /\ requested = [t \in Threads |-> << >>]
    /\ total = [t \in Threads |-> 0]
    /\ zoneIndex = [t \in Threads |-> 0]
    /\ currentPeak = [t \in Threads |-> 0]
    /\ osCalls = 0
    /\ osLive = {}
    /\ issued = {}
    /\ callCount = [o \in {"carve", "return"} |-> 0]
    /\ entry = [t \in Threads |-> << >>]
    /\ maxTotal = 0

(***************************************************************************)
(* StackAllocator::StackAllocator, lines 6-18.                             *)
(***************************************************************************)
Init ==
    /\ m_memory \in Bases
    /\ m_size \in Capacities
    /\ headerSize \in {0, HeaderBytes}
    /\ m_offset = InitialOffset
    /\ m_peakUsage = InitialOffset
    /\ m_allocationCount = InitialOffset
    /\ m_casRetryCount = InitialOffset
    /\ pc = [t \in Threads |-> "idle"]
    /\ op = [t \in Threads |-> "none"]
    /\ size = [t \in Threads |-> 0]
    /\ alignment = [t \in Threads |-> 0]
    /\ marker = [t \in Threads |-> 0]
    /\ currentOffset = [t \in Threads |-> 0]
    /\ alignedOffset = [t \in Threads |-> 0]
    /\ newOffset = [t \in Threads |-> 0]
    /\ peak = [t \in Threads |-> 0]
    /\ ret = [t \in Threads |-> NULL]
    /\ scopes = [t \in Threads |-> << >>]
    /\ live = {}
    /\ maxUsed = InitialOffset
    /\ fresh = -1
    /\ allocOnly = TRUE
    /\ sumSizes = 0
    /\ sumFootprint = 0
    /\ allocIds = {}
    /\ ManagerInit

(***************************************************************************)
(* Bookkeeping shared by the actions.                                      *)
(***************************************************************************)
\* a call begins: its name and arguments
Enter(t, o, sz, al, mk) ==
    /\ op' = [op EXCEPT ![t] = o]
    /\ size' = [size EXCEPT ![t] = sz]
    /\ alignment' = [alignment EXCEPT ![t] = al]
    /\ marker' = [marker EXCEPT ![t] = mk]

\* a bool in the place of a returned value: true converts to 1, false to 0
Bool(b) == IF b THEN 1 ELSE 0

\* a call returns value: the caller holds it until it goes on (Resume); the
\* locals of the call are dead
Return(t, value) ==
    /\ pc' = [pc EXCEPT ![t] = "done"]
    /\ ret' = [ret EXCEPT ![t] = value]
    /\ currentOffset' = [currentOffset EXCEPT ![t] = 0]
    /\ alignedOffset' = [alignedOffset EXCEPT ![t] = 0]
    /\ newOffset' = [newOffset EXCEPT ![t] = 0]
    /\ peak' = [peak EXCEPT ![t] = 0]

Pop(s) == SubSeq(s, 1, Len(s) - 1)
Top(s) == s[Len(s)]

\* the caller goes on after a call; a scope whose destructor has returned
\* is gone from the thread's stack
Resume(t) ==
    /\ pc[t] = "done"
    /\ pc' = [pc EXCEPT ![t] = "idle"]
    /\ Enter(t, "none", 0, 0, 0)
    /\ ret' = [ret EXCEPT ![t] = NULL]
    /\ scopes' = IF op[t] = "ScopeDtor" THEN [scopes EXCEPT ![t] = Pop(@)] ELSE scopes
    /\ UNCHANGED <<object, counters, locals, history>>

\* what a scope has seen since its constructor ran: 0 nothing, 1 only
\* Allocate calls and nested scopes of its own thread, 2 anything else
Seen(t, own, skipTop) ==
    [u \in Threads |->
        [i \in 1 .. Len(scopes[u]) |->
            IF u = t /\ skipTop /\ i = Len(scopes[u]) THEN scopes[u][i]
            ELSE [scopes[u][i] EXCEPT
                    !.seen = IF u = t /\ own THEN Max(@, 1) ELSE 2]]]

\* the tracked fresh allocator is dropped when calls overlap
FreshAfterBegin(t) == IF Alone(t) THEN fresh ELSE -1

(***************************************************************************)
(* StackAllocator::Allocate, lines 24-82.                                  *)
(***************************************************************************)
\* size == 0
ZeroSize(sz) == sz = 0

\* reinterpret_cast<uintptr_t>(m_memory + currentOffset + headerSize)
RawAddress(cur) == AddW(AddW(m_memory, cur), headerSize)

\* currentOffset + headerSize + (AlignUp(rawAddress, alignment) - rawAddress)
AlignedOffset(cur, al) ==
    AddW(AddW(cur, headerSize), SubW(AlignUp(RawAddress(cur), al), RawAddress(cur)))

\* alignedOffset + size
NewOffset(aligned, sz) == AddW(aligned, sz)

\* m_memory + alignedOffset
AlignedPtr(aligned) == AddW(m_memory, aligned)

\* the range check left out
OutOfMemoryNever(new) == FALSE

\* the range check off by one
OutOfMemoryOffByOne(new) == new > m_size + 1

\* newOffset > m_size
OutOfMemory(new) == new > m_size

\* the peak loop written with != in place of >
PeakDiffers(currentUsage, p) == currentUsage # p

\* currentUsage > peak
PeakExceeded(currentUsage, p) == currentUsage > p

\* Allocate run to completion on cursor cur with no other thread running
SeqAllocate(cur, sz, al) ==
    IF ZeroSize(sz) \/ ~IsPowerOfTwo(al)
    THEN [ptr |-> NULL, cursor |-> cur]
    ELSE LET a == AlignedOffset(cur, al)
             n == NewOffset(a, sz)
         IN  IF OutOfMemory(n)
             THEN [ptr |-> NULL, cursor |-> cur]
             ELSE [ptr |-> AlignedPtr(a), cursor |-> n]

FreshAfterAllocate(t) ==
    IF fresh = -1 THEN -1 ELSE SeqAllocate(fresh, size[t], alignment[t]).cursor

\* the most a valid request can reserve: header, padding, payload
Footprint(sz, al) == headerSize + (al - 1) + sz

\* calls inside the CAS loop or not yet counted
InFlight == Cardinality({u \in Threads : pc[u] \in {"alloc_load", "alloc_cas", "alloc_count"}})

\* lines 26-34: the argument checks, then into the loop
AllocateBegin(t, sz, al) ==
    /\ pc[t] = "idle"
    /\ Enter(t, "Allocate", sz, al, 0)
    /\ scopes' = Seen(t, TRUE, FALSE)
    /\ fresh' = FreshAfterBegin(t)
    /\ UNCHANGED allocIds
    /\ UNCHANGED <<object, counters, live, maxUsed, allocOnly>>
    /\ IF ZeroSize(sz) \/ ~IsPowerOfTwo(al)
       THEN /\ Return(t, NULL)
            /\ UNCHANGED <<sumSizes, sumFootprint>>
       ELSE /\ m_allocationCount + InFlight < MaxAllocs
            /\ pc' = [pc EXCEPT ![t] = "alloc_load"]
            /\ sumSizes' = IF allocOnly THEN Min(sumSizes + sz, m_size + 1) ELSE 0
            /\ sumFootprint' =
                   IF allocOnly THEN Min(sumFootprint + Footprint(sz, al), m_size + 1) ELSE 0
            /\ UNCHANGED <<ret, locals>>

Allocate(t) ==
    \E sz \in Sizes, al \in Alignments : AllocateBegin(t, sz, al)

\* lines 48-62: load the cursor, compute the offsets, check the range
AllocateLoad(t) ==
    /\ pc[t] = "alloc_load"
    /\ LET cur == m_offset
           a == AlignedOffset(cur, alignment[t])
           n == NewOffset(a, size[t])
       IN  IF OutOfMemory(n)
           THEN /\ Return(t, NULL)
                /\ fresh' = FreshAfterAllocate(t)
                /\ UNCHANGED allocIds
           ELSE /\ pc' = [pc EXCEPT ![t] = "alloc_cas"]
                /\ currentOffset' = [currentOffset EXCEPT ![t] = cur]
                /\ alignedOffset' = [alignedOffset EXCEPT ![t] = a]
                /\ newOffset' = [newOffset EXCEPT ![t] = n]
                /\ UNCHANGED <<ret, peak, fresh, allocIds>>
    /\ UNCHANGED <<object, counters, call, scopes, live, maxUsed,
                   allocOnly, sumSizes, sumFootprint>>

\* the cursor written with a plain store in place of the compare-exchange
AllocateCasBlind(t) ==
    /\ pc[t] = "alloc_cas"
    /\ m_offset' = newOffset[t]
    /\ pc' = [pc EXCEPT ![t] = "alloc_count"]
    /\ live' = live \cup {[lo |-> currentOffset[t], hi |-> newOffset[t]]}
    /\ maxUsed' = Max(maxUsed, newOffset[t])
    /\ UNCHANGED <<object, m_peakUsage, m_allocationCount, m_casRetryCount, call,
                   locals, ret, scopes, fresh, allocIds, allocOnly, sumSizes, sumFootprint>>

\* the compare-exchange with its comparison inverted
AllocateCasInverted(t) ==
    /\ pc[t] = "alloc_cas"
    /\ m_offset # currentOffset[t]
    /\ m_offset' = newOffset[t]
    /\ pc' = [pc EXCEPT ![t] = "alloc_count"]
    /\ live' = live \cup {[lo |-> currentOffset[t], hi |-> newOffset[t]]}
    /\ maxUsed' = Max(maxUsed, newOffset[t])
    /\ UNCHANGED <<object, m_peakUsage, m_allocationCount, m_casRetryCount, call,
                   locals, ret, scopes, fresh, allocIds, allocOnly, sumSizes, sumFootprint>>

\* lines 64-68: compare_exchange_weak finds currentOffset and writes newOffset
AllocateCasSuccess(t) ==
    /\ pc[t] = "alloc_cas"
    /\ m_offset = currentOffset[t]
    /\ m_offset' = newOffset[t]
    /\ pc' = [pc EXCEPT ![t] = "alloc_count"]
    /\ live' = live \cup {[lo |-> currentOffset[t], hi |-> newOffset[t]]}
    /\ maxUsed' = Max(maxUsed, newOffset[t])
    /\ UNCHANGED <<object, m_peakUsage, m_allocationCount, m_casRetryCount, call,
                   locals, ret, scopes, fresh, allocIds, allocOnly, sumSizes, sumFootprint>>

\* lines 64-68: compare_exchange_weak fails (another value, or spuriously)
\* and the loop starts over; no statement of the loop touches m_casRetryCount.
\* The locals are dead until line 48 and the following assign them again.
AllocateCasFail(t) ==
    /\ pc[t] = "alloc_cas"
    /\ pc' = [pc EXCEPT ![t] = "alloc_load"]
    /\ currentOffset' = [currentOffset EXCEPT ![t] = 0]
    /\ alignedOffset' = [alignedOffset EXCEPT ![t] = 0]
    /\ newOffset' = [newOffset EXCEPT ![t] = 0]
    /\ UNCHANGED <<object, counters, call, peak, ret, scopes, history>>

\* line 71: m_allocationCount.fetch_add(1)
AllocateCount(t) ==
    /\ pc[t] = "alloc_count"
    /\ m_allocationCount' = m_allocationCount + 1
    /\ pc' = [pc EXCEPT ![t] = "peak_load"]
    /\ UNCHANGED <<object, m_offset, m_peakUsage, m_casRetryCount, call, locals,
                   ret, scopes, history>>

\* lines 74-79 under ELK_DEBUG, and WriteDebugHeader, lines 269-276: the
\* header the call writes, ptr the address it is written at; the cast of
\* the count to uint32_t keeps a count below 2^32 as it is
DebugHeader(t) ==
    [ptr |-> AddW(m_memory, currentOffset[t]),
     size |-> size[t],
     padding |-> SubW(SubW(alignedOffset[t], currentOffset[t]), headerSize),
     allocId |-> m_allocationCount]

\* the headers the call writes: none without ELK_DEBUG
WriteDebugHeader(t) == IF headerSize = 0 THEN {} ELSE {DebugHeader(t)}

\* lines 74-81: the header is written, return alignedPtr
AllocateReturn(t) ==
    /\ Return(t, AlignedPtr(alignedOffset[t]))
    /\ fresh' = FreshAfterAllocate(t)
    /\ allocIds' = allocIds \cup {h.allocId : h \in WriteDebugHeader(t)}

\* UpdatePeakUsage, lines 145-146: load the peak, test the loop condition
PeakLoad(t) ==
    /\ pc[t] = "peak_load"
    /\ IF PeakExceeded(newOffset[t], m_peakUsage)
       THEN /\ pc' = [pc EXCEPT ![t] = "peak_cas"]
            /\ peak' = [peak EXCEPT ![t] = m_peakUsage]
            /\ UNCHANGED <<ret, currentOffset, alignedOffset, newOffset, fresh, allocIds>>
       ELSE AllocateReturn(t)
    /\ UNCHANGED <<object, counters, call, scopes, live, maxUsed,
                   allocOnly, sumSizes, sumFootprint>>

\* UpdatePeakUsage, lines 146-150: compare_exchange_weak on m_peakUsage; a
\* failure reloads peak and tests the loop condition again
PeakCas(t) ==
    /\ pc[t] = "peak_cas"
    /\ IF m_peakUsage = peak[t]
       THEN /\ m_peakUsage' = newOffset[t]
            /\ AllocateReturn(t)
       ELSE /\ UNCHANGED m_peakUsage
            /\ IF PeakExceeded(newOffset[t], m_peakUsage)
               THEN /\ peak' = [peak EXCEPT ![t] = m_peakUsage]
                    /\ UNCHANGED <<pc, ret, currentOffset, alignedOffset, newOffset, fresh, allocIds>>
               ELSE AllocateReturn(t)
    /\ UNCHANGED <<object, m_offset, m_allocationCount, m_casRetryCount, call, scopes,
                   live, maxUsed, allocOnly, sumSizes, sumFootprint>>

(***************************************************************************)
(* StackAllocator::Deallocate, lines 84-89, and Reallocate, lines 91-114.  *)
(***************************************************************************)
\* Deallocate giving the memory back, as a Reset does
DeallocateFrees(t) ==
    /\ pc[t] = "idle"
    /\ Enter(t, "Deallocate", 0, 0, 0)
    /\ Return(t, NULL)
    /\ scopes' = Seen(t, FALSE, FALSE)
    /\ fresh' = FreshAfterBegin(t)
    /\ UNCHANGED allocIds
    /\ m_offset' = InitialOffset
    /\ live' = {}
    /\ UNCHANGED <<object, m_peakUsage, m_allocationCount, m_casRetryCount,
                   maxUsed, allocOnly, sumSizes, sumFootprint>>

\* (void)ptr: whatever ptr is, nothing is done with it
Deallocate(t) ==
    \E ptr \in {NULL, 1} :
        /\ pc[t] = "idle"
        /\ Enter(t, "Deallocate", 0, 0, 0)
        /\ Return(t, NULL)
        /\ scopes' = Seen(t, FALSE, FALSE)
        /\ fresh' = FreshAfterBegin(t)
        /\ UNCHANGED allocIds
        /\ UNCHANGED <<object, counters, live, maxUsed, allocOnly, sumSizes, sumFootprint>>

\* ptr is null: Allocate(newSize); newSize is 0: nullptr; else Allocate(newSize)
Reallocate(t) ==
    \E ptr \in {NULL, 1}, sz \in Sizes, al \in Alignments :
        IF ptr = NULL
        THEN AllocateBegin(t, sz, al)
        ELSE IF sz = 0
             THEN /\ pc[t] = "idle"
                  /\ Enter(t, "Reallocate", sz, al, 0)
                  /\ Return(t, NULL)
                  /\ scopes' = Seen(t, FALSE, FALSE)
                  /\ fresh' = FreshAfterBegin(t)
                  /\ UNCHANGED allocIds
                  /\ UNCHANGED <<object, counters, live, maxUsed,
                                 allocOnly, sumSizes, sumFootprint>>
             ELSE AllocateBegin(t, sz, al)

(***************************************************************************)
(* StackAllocator::Reset, GetMarker, Rewind, lines 116-141.                *)
(***************************************************************************)
\* Reset leaving the cursor off zero
ResetOffsetStale == InitialOffset + 1

\* m_offset.store(0)
ResetOffset == 0

Reset(t) ==
    /\ pc[t] = "idle"
    /\ Enter(t, "Reset", 0, 0, 0)
    /\ m_offset' = ResetOffset
    /\ Return(t, NULL)
    /\ scopes' = Seen(t, FALSE, FALSE)
    /\ live' = {}
    /\ maxUsed' = Max(maxUsed, ResetOffset)
    /\ fresh' = IF Alone(t) THEN InitialOffset ELSE -1
    /\ UNCHANGED allocIds
    /\ allocOnly' = FALSE
    /\ sumSizes' = 0
    /\ sumFootprint' = 0
    /\ UNCHANGED <<object, m_peakUsage, m_allocationCount, m_casRetryCount>>

\* the marker taken from the free bytes in place of the used bytes
GetMarkerAvailable == m_size - m_offset

\* m_offset.load()
GetMarker == m_offset

\* marker > m_size
InvalidMarker(mk) == mk > m_size

\* the second check of Rewind left out
MarkerAheadNever(mk, cur) == FALSE

\* marker > currentOffset
MarkerAhead(mk, cur) == mk > cur

\* m_offset.store(marker)
RewindTarget(mk) == mk

\* lines 129-138: the two checks; o is "Rewind" for a direct call and
\* "ScopeDtor" for the call made by ~StackAllocatorScope
RewindBegin(t, o, mk) ==
    /\ pc[t] = "idle"
    /\ Enter(t, o, 0, 0, mk)
    /\ fresh' = -1
    /\ UNCHANGED allocIds
    /\ allocOnly' = FALSE
    /\ sumSizes' = 0
    /\ sumFootprint' = 0
    /\ UNCHANGED <<object, counters, live, maxUsed>>
    /\ scopes' = Seen(t, o = "ScopeDtor", o = "ScopeDtor")
    /\ IF InvalidMarker(mk) \/ MarkerAhead(mk, m_offset)
       THEN Return(t, NULL)
       ELSE /\ pc' = [pc EXCEPT ![t] = "rewind_store"]
            /\ currentOffset' = [currentOffset EXCEPT ![t] = m_offset]
            /\ UNCHANGED <<ret, alignedOffset, newOffset, peak>>

Rewind(t) == \E mk \in Markers : RewindBegin(t, "Rewind", mk)

\* line 140
RewindStore(t) ==
    /\ pc[t] = "rewind_store"
    /\ m_offset' = RewindTarget(marker[t])
    /\ Return(t, NULL)
    /\ live' = {r \in live : r.hi <= RewindTarget(marker[t])}
    /\ maxUsed' = Max(maxUsed, RewindTarget(marker[t]))
    /\ UNCHANGED <<object, m_peakUsage, m_allocationCount, m_casRetryCount, call,
                   scopes, fresh, allocIds, allocOnly, sumSizes, sumFootprint>>

(***************************************************************************)
(* StackAllocatorScope and StackAllocatorScopePtr, StackAllocator.h 75-127.*)
(***************************************************************************)
\* constructor: m_marker(allocator.GetMarker())
ScopeCtor(t) ==
    /\ pc[t] = "idle"
    /\ Len(scopes[t]) < MaxScopes
    /\ Enter(t, "ScopeCtor", 0, 0, GetMarker)
    /\ Return(t, NULL)
    /\ scopes' = [Seen(t, TRUE, FALSE) EXCEPT
                    ![t] = Append(@, [m_marker |-> GetMarker,
                                      seen |-> IF Alone(t) THEN 0 ELSE 2])]
    /\ fresh' = FreshAfterBegin(t)
    /\ UNCHANGED allocIds
    /\ UNCHANGED <<object, counters, live, maxUsed, allocOnly, sumSizes, sumFootprint>>

\* destructor of the innermost scope: m_allocator.Rewind(m_marker)
ScopeDtor(t) ==
    /\ pc[t] = "idle"
    /\ Len(scopes[t]) > 0
    /\ RewindBegin(t, "ScopeDtor", Top(scopes[t]).m_marker)

(***************************************************************************)
(* The threads run in any order.                                           *)
(***************************************************************************)
Next ==
    \E t \in Threads :
        \/ Allocate(t)
        \/ AllocateLoad(t)
        \/ AllocateCasSuccess(t)
        \/ AllocateCasFail(t)
        \/ AllocateCount(t)
        \/ PeakLoad(t)
        \/ PeakCas(t)
        \/ Deallocate(t)
        \/ Reallocate(t)
        \/ Reset(t)
        \/ Rewind(t)
        \/ RewindStore(t)
        \/ Resume(t)

Spec == Init /\ [][Next]_vars

Owner == CHOOSE t \in Threads : TRUE

\* One thread opens and closes scopes around its Allocate calls; any thread
\* may call Reset in between.
NextScope ==
    \/ ScopeCtor(Owner)
    \/ ScopeDtor(Owner)
    \/ RewindStore(Owner)
    \/ Allocate(Owner)
    \/ AllocateLoad(Owner)
    \/ AllocateCasSuccess(Owner)
    \/ AllocateCasFail(Owner)
    \/ AllocateCount(Owner)
    \/ PeakLoad(Owner)
    \/ PeakCas(Owner)
    \/ \E t \in Threads :
        \/ Reset(t)
        \/ Resume(t)

SpecScope == Init /\ [][NextScope]_vars

(***************************************************************************)
(* MemoryManager (Private/Core/Memory/MemoryManager.cpp).  The manager's   *)
(* operations leave the StackAllocator of the first part alone.            *)
(***************************************************************************)
stackState == <<m_memory, m_size, headerSize, counters, scopes, history>>

\* Inputs.  The OS hands out one address or none; calls name a zone every
\* preset lists first and one CustomBudget lists first and DefaultMobile
\* leaves empty; sizes hold a size that fits and one close to the largest
\* size_t.
OSBlocks == {4 * MB}
ZonesUsed == {FrameTemp, Debug}
ZoneSizes == {4 * MB, ZoneModulus - 1 * MB}
ReturnedSizes == {4 * MB}
StackSizes == {0, 256 * KB - 1, 256 * KB, 256 * MB + 1}
HeapSizes == {0, 1 * MB - 1, 1 * MB, 256 * MB + 1}
LinearSizes == {0, 64 * KB - 1, 64 * KB, 256 * MB + 1}
PoolSizes == {<<1 * KB, 3>>, <<1 * KB, 4>>, <<512 * KB, 513>>, <<2 * MB, 8193>>}

\* a manager call returns: its locals are dead
ManagerReturn(t, value) ==
    /\ Return(t, value)
    /\ total' = [total EXCEPT ![t] = 0]
    /\ zoneIndex' = [zoneIndex EXCEPT ![t] = 0]
    /\ currentPeak' = [currentPeak EXCEPT ![t] = 0]

\* the caller goes on after a manager call
ManagerResume(t) ==
    /\ pc[t] = "done"
    /\ pc' = [pc EXCEPT ![t] = "idle"]
    /\ Enter(t, "none", 0, 0, 0)
    /\ ret' = [ret EXCEPT ![t] = NULL]
    /\ zone' = [zone EXCEPT ![t] = 0]
    /\ requested' = [requested EXCEPT ![t] = << >>]
    /\ entry' = [entry EXCEPT ![t] = << >>]
    /\ UNCHANGED <<stackState, locals, manager, managerLocals,
                   osCalls, osLive, issued, callCount, maxTotal>>

\* what Initialize can change, as the call finds it
Snapshot ==
    [budget |-> budget_, size |-> globalMemorySize_, memory |-> globalMemory_,
     zones |-> zones_, initialized |-> initialized_]

(***************************************************************************)
(* MemoryManager::Initialize, lines 32-69, and InitializeZones, 117-140.   *)
(***************************************************************************)
\* the test of line 33 left out
AlreadyInitializedNever == FALSE

\* if (initialized_)
AlreadyInitialized == initialized_

\* lines 33-42: the test of initialized_; budget_ and globalMemorySize_ are
\* assigned before the block is asked for
InitializeBegin(t, budget) ==
    /\ pc[t] = "idle"
    /\ Enter(t, "Initialize", 0, 0, 0)
    /\ entry' = [entry EXCEPT ![t] = [before |-> Snapshot, budget |-> budget]]
    /\ UNCHANGED <<stackState, managerCall, osCalls, osLive, issued, callCount,
                   maxTotal, initialized_, globalMemory_, zones_, allocators_,
                   peakUsage_, totalAllocatorCount_>>
    /\ IF AlreadyInitialized
       THEN /\ ManagerReturn(t, Bool(TRUE))
            /\ UNCHANGED <<budget_, globalMemorySize_>>
       ELSE /\ osCalls < MaxInits
            /\ budget_' = budget
            /\ globalMemorySize_' = budget.totalSize
            /\ pc' = [pc EXCEPT ![t] = "init_reserve"]
            /\ UNCHANGED <<ret, locals, managerLocals>>

Initialize(t) == \E budget \in Budgets : InitializeBegin(t, budget)

\* lines 45-50: AllocateOSMemory(globalMemorySize_) gives one of blocks that
\* no one holds, or fails
InitializeReserveFrom(t, blocks) ==
    /\ pc[t] = "init_reserve"
    /\ osCalls' = osCalls + 1
    /\ \E block \in (blocks \ osLive) \cup {NULL} :
        /\ globalMemory_' = block
        /\ IF block = NULL
           THEN /\ ManagerReturn(t, Bool(FALSE))
                /\ UNCHANGED osLive
           ELSE /\ pc' = [pc EXCEPT ![t] = "init_zones"]
                /\ osLive' = osLive \cup {block}
                /\ UNCHANGED <<ret, locals, managerLocals>>
    /\ UNCHANGED <<stackState, call, managerCall, issued, callCount, entry,
                   maxTotal, initialized_, globalMemorySize_, budget_, zones_,
                   allocators_, peakUsage_, totalAllocatorCount_>>

InitializeReserve(t) == InitializeReserveFrom(t, OSBlocks)

\* the loop of InitializeZones from entry i on, currentAddress running
RECURSIVE InitializeZonesFrom(_, _, _, _)
InitializeZonesFrom(zs, budget, currentAddress, i) ==
    IF i > Len(budget.zoneAllocations) THEN zs
    ELSE LET allocation == budget.zoneAllocations[i]
             zoneSize == GetZoneSize(budget, allocation.zone)
             data == [zs[allocation.zone] EXCEPT
                        !.baseAddress = currentAddress,
                        !.totalSize = zoneSize,
                        !.usedSize = 0,
                        !.offset = 0,
                        !.canGrow = allocation.canGrow]
         IN  InitializeZonesFrom([zs EXCEPT ![allocation.zone] = data], budget,
                                 AddZ(currentAddress, zoneSize), i + 1)

InitializeZones == InitializeZonesFrom(zones_, budget_, globalMemory_, 1)

\* lines 58-68: InitializeZones (it returns true on every path), then
\* initialized_ = true
InitializeFinish(t) ==
    /\ pc[t] = "init_zones"
    /\ zones_' = InitializeZones
    /\ initialized_' = TRUE
    /\ ManagerReturn(t, Bool(TRUE))
    /\ issued' = {}
    /\ UNCHANGED <<stackState, call, managerCall, osCalls, osLive, callCount, entry,
                   maxTotal, globalMemory_, globalMemorySize_, budget_, allocators_,
                   peakUsage_, totalAllocatorCount_>>

(***************************************************************************)
(* MemoryManager::Shutdown, lines 71-107.                                  *)
(***************************************************************************)
\* FreeOSMemory releasing nothing
FreeOSMemoryNothing(ptr) == {}

\* FreeOSMemory, lines 553-571: the blocks the call gives back to the OS
FreeOSMemory(ptr) == IF ptr = NULL THEN {} ELSE {ptr}

Shutdown(t) ==
    /\ pc[t] = "idle"
    /\ Enter(t, "Shutdown", 0, 0, 0)
    /\ ManagerReturn(t, NULL)
    /\ IF ~initialized_
       THEN UNCHANGED <<manager, osLive>>
       ELSE /\ allocators_' = << >>
            /\ osLive' = osLive \ FreeOSMemory(globalMemory_)
            /\ globalMemory_' = NULL
            /\ initialized_' = FALSE
            /\ UNCHANGED <<globalMemorySize_, budget_, zones_, peakUsage_,
                           totalAllocatorCount_>>
    /\ UNCHANGED <<stackState, managerCall, osCalls, issued, callCount, entry, maxTotal>>

(***************************************************************************)
(* MemoryManager::AllocateFromZone, lines 271-303, DeallocateToZone,       *)
(* lines 305-319, UpdatePeakUsage and CalculateActualUsage, lines 577-599. *)
(***************************************************************************)
CarveOps ==
    {"AllocateFromZone", "CreateStackAllocator", "CreatePoolAllocator",
     "CreateHeapAllocator", "CreateLinearAllocator"}

\* a call carves from a zone or returns to it
Kind(o) == IF o \in CarveOps THEN "carve" ELSE "return"

\* cursor and used bytes of every zone
Usage == [z \in MemoryZone |-> <<zones_[z].offset, zones_[z].usedSize>>]

\* what a call of o remembers of the zones as it finds them (history)
Before(o) == IF o = "AllocateFromZone" \/ Kind(o) = "return"
             THEN << >> ELSE [usage |-> Usage]

\* a call that works on a zone begins: next it takes the zone's mutex
ZoneCallBegin(t, o, z, sz, args) ==
    /\ pc[t] = "idle"
    /\ Enter(t, o, sz, 0, 0)
    /\ zone' = [zone EXCEPT ![t] = z]
    /\ requested' = [requested EXCEPT ![t] = args]
    /\ pc' = [pc EXCEPT ![t] = "zone_lock"]
    /\ callCount' = [callCount EXCEPT ![Kind(o)] = @ + 1]
    /\ entry' = [entry EXCEPT ![t] = Before(o)]
    /\ UNCHANGED <<stackState, ret, locals, manager, managerLocals,
                   osCalls, osLive, issued, maxTotal>>

AllocateFromZone(t) ==
    \E z \in ZonesUsed, sz \in ZoneSizes :
        /\ callCount["carve"] < MaxCarves
        /\ ZoneCallBegin(t, "AllocateFromZone", z, sz, << >>)

DeallocateToZone(t) ==
    \E z \in ZonesUsed, sz \in ReturnedSizes :
        /\ callCount["return"] < MaxReturns
        /\ ZoneCallBegin(t, "DeallocateToZone", z, sz, << >>)

\* std::lock_guard lock(zoneData.mutex), lines 275 and 309
ZoneLock(t) ==
    /\ pc[t] = "zone_lock"
    /\ zones_[zone[t]].mutex = "free"
    /\ zones_' = [zones_ EXCEPT ![zone[t]].mutex = t]
    /\ pc' = [pc EXCEPT ![t] = IF op[t] = "DeallocateToZone"
                               THEN "zone_release" ELSE "zone_bump"]
    /\ UNCHANGED <<stackState, call, ret, locals, managerCall, managerLocals,
                   managerHistory, initialized_, globalMemory_, globalMemorySize_,
                   budget_, allocators_, peakUsage_, totalAllocatorCount_>>

\* the used bytes of the zones from z on, added up without wrapping
RECURSIVE SumOfUsedBytes(_)
SumOfUsedBytes(z) ==
    IF z >= Count THEN 0 ELSE zones_[z].usedSize + SumOfUsedBytes(z + 1)

\* the capacity check left out
ZoneOutOfMemoryNever(new, data) == FALSE

\* newOffset > zoneData.totalSize
ZoneOutOfMemory(new, data) == new > data.totalSize

\* what the call returns for the sub-block at ptr: the Create*Allocator
\* functions end in return nullptr
Handle(o, ptr) == IF o = "AllocateFromZone" THEN ptr ELSE NULL

\* lines 278-297, inside the mutex: offset and usedSize are written by no
\* one else while it is held, and offset is read by no one else
ZoneBump(t) ==
    /\ pc[t] = "zone_bump"
    /\ LET zoneData == zones_[zone[t]]
           current == zoneData.offset
           new == AddZ(current, size[t])
           ptr == AddZ(zoneData.baseAddress, current)
       IN  IF ZoneOutOfMemory(new, zoneData)
           THEN /\ zones_' = [zones_ EXCEPT ![zone[t]].mutex = "free"]
                /\ ManagerReturn(t, NULL)
                /\ UNCHANGED <<issued, maxTotal>>
           ELSE /\ zones_' = [zones_ EXCEPT
                                ![zone[t]].offset = new,
                                ![zone[t]].usedSize = AddZ(zoneData.usedSize, size[t])]
                /\ ret' = [ret EXCEPT ![t] = ptr]
                /\ pc' = [pc EXCEPT ![t] = "calculate"]
                /\ issued' = issued \cup
                       {[zone |-> zone[t], ptr |-> ptr, size |-> size[t]]}
                /\ maxTotal' = Max(maxTotal, SumOfUsedBytes(0)')
                /\ UNCHANGED <<locals, managerLocals>>
    /\ UNCHANGED <<stackState, call, managerCall, osCalls, osLive, callCount, entry,
                   initialized_, globalMemory_, globalMemorySize_, budget_,
                   allocators_, peakUsage_, totalAllocatorCount_>>

\* the zones of MemoryZone from a to b, summed as the loop sums them
RECURSIVE UsedFrom(_, _)
UsedFrom(a, b) ==
    IF a > b THEN 0 ELSE AddZ(zones_[a].usedSize, UsedFrom(a + 1, b))

\* the zone at or after i that calls name, the last zone if there is none
NextUsed(i) ==
    LET later == {z \in ZonesUsed : z >= i}
    IN  IF later = {} THEN Count - 1
        ELSE CHOOSE z \in later : \A y \in later : z <= y

\* CalculateActualUsage, lines 580-582: the passes of the loop up to the next
\* zone of ZonesUsed.  The zones in between are read along with it: where
\* calls name one of them (SpecStats, SpecPeak) this leaves interleavings
\* out and adds none.
CalculateActualUsage(t) ==
    /\ pc[t] = "calculate"
    /\ LET last == NextUsed(zoneIndex[t])
       IN  /\ total' = [total EXCEPT ![t] = AddZ(@, UsedFrom(zoneIndex[t], last))]
           /\ IF last = Count - 1
              THEN /\ pc' = [pc EXCEPT ![t] = "usage_peak_load"]
                   /\ UNCHANGED zoneIndex
              ELSE /\ zoneIndex' = [zoneIndex EXCEPT ![t] = last + 1]
                   /\ UNCHANGED pc
    /\ UNCHANGED <<stackState, call, ret, locals, manager, managerCall,
                   currentPeak, managerHistory>>

\* the call leaves AllocateFromZone: the lock_guard releases the mutex
ZoneReturn(t) ==
    /\ zones_' = [zones_ EXCEPT ![zone[t]].mutex = "free"]
    /\ ManagerReturn(t, Handle(op[t], ret[t]))

\* UpdatePeakUsage, lines 589-591
UsagePeakLoad(t) ==
    /\ pc[t] = "usage_peak_load"
    /\ IF PeakExceeded(total[t], peakUsage_)
       THEN /\ pc' = [pc EXCEPT ![t] = "usage_peak_cas"]
            /\ currentPeak' = [currentPeak EXCEPT ![t] = peakUsage_]
            /\ UNCHANGED <<ret, locals, total, zoneIndex, zones_>>
       ELSE ZoneReturn(t)
    /\ UNCHANGED <<stackState, call, managerCall, managerHistory, initialized_,
                   globalMemory_, globalMemorySize_, budget_, allocators_,
                   peakUsage_, totalAllocatorCount_>>

\* UpdatePeakUsage, lines 591-598: compare_exchange_weak on peakUsage_; a
\* failure reloads currentPeak and tests the loop condition again
UsagePeakCas(t) ==
    /\ pc[t] = "usage_peak_cas"
    /\ IF peakUsage_ = currentPeak[t]
       THEN /\ peakUsage_' = total[t]
            /\ ZoneReturn(t)
       ELSE /\ UNCHANGED peakUsage_
            /\ IF PeakExceeded(total[t], peakUsage_)
               THEN /\ currentPeak' = [currentPeak EXCEPT ![t] = peakUsage_]
                    /\ UNCHANGED <<pc, ret, locals, total, zoneIndex, zones_>>
               ELSE ZoneReturn(t)
    /\ UNCHANGED <<stackState, call, managerCall, managerHistory, initialized_,
                   globalMemory_, globalMemorySize_, budget_, allocators_,
                   totalAllocatorCount_>>

\* the guard of the decrement left out
EnoughUsedAlways(currentUsed, sz) == TRUE

\* currentUsed >= size
EnoughUsed(currentUsed, sz) == currentUsed >= sz

\* DeallocateToZone, lines 312-319, inside the mutex; ptr is not read
ZoneRelease(t) ==
    /\ pc[t] = "zone_release"
    /\ LET zoneData == zones_[zone[t]]
           used == IF EnoughUsed(zoneData.usedSize, size[t])
                   THEN SubZ(zoneData.usedSize, size[t])
                   ELSE zoneData.usedSize
       IN  zones_' = [zones_ EXCEPT ![zone[t]].usedSize = used,
                                    ![zone[t]].mutex = "free"]
    /\ ManagerReturn(t, NULL)
    /\ UNCHANGED <<stackState, call, managerCall, managerHistory, initialized_,
                   globalMemory_, globalMemorySize_, budget_, allocators_,
                   peakUsage_, totalAllocatorCount_>>

(***************************************************************************)
(* MemoryManager::Create*Allocator, lines 146-265.                         *)
(***************************************************************************)
\* the test of initialized_ left out
NotInitializedNever == FALSE

\* if (!initialized_)
NotInitialized == ~initialized_

\* the size 0 replaced by the default of the type, lines 157, 219, 248
OrDefault(sz, default) == IF sz = 0 THEN default ELSE sz

\* the test of initialized_, the adjustment of the size, then AllocateFromZone
CreateBegin(t, o, type, z, args, sz) ==
    IF NotInitialized
    THEN /\ pc[t] = "idle"
         /\ Enter(t, o, 0, 0, 0)
         /\ ManagerReturn(t, NULL)
         /\ zone' = [zone EXCEPT ![t] = z]
         /\ requested' = [requested EXCEPT ![t] = args]
         /\ entry' = [entry EXCEPT ![t] = Before(o)]
         /\ UNCHANGED <<stackState, manager, osCalls, osLive, issued, callCount,
                        maxTotal>>
    ELSE /\ callCount["carve"] < MaxCarves
         /\ ZoneCallBegin(t, o, z, AdjustToRecommended(sz, type), args)

CreateStackAllocator(t) ==
    \E z \in ZonesUsed, sz \in StackSizes :
        CreateBegin(t, "CreateStackAllocator", "Stack", z, <<sz>>,
                    OrDefault(sz, DEFAULT_STACK_SIZE))

CreatePoolAllocator(t) ==
    \E z \in ZonesUsed, args \in PoolSizes :
        CreateBegin(t, "CreatePoolAllocator", "Pool", z, args, MulZ(args[1], args[2]))

CreateHeapAllocator(t) ==
    \E z \in ZonesUsed, sz \in HeapSizes :
        CreateBegin(t, "CreateHeapAllocator", "Heap", z, <<sz>>,
                    OrDefault(sz, DEFAULT_HEAP_SIZE))

CreateLinearAllocator(t) ==
    \E z \in ZonesUsed, sz \in LinearSizes :
        CreateBegin(t, "CreateLinearAllocator", "Linear", z, <<sz>>,
                    OrDefault(sz, MIN_MEDIUM_ALLOCATOR))

(***************************************************************************)
(* One thread brings the manager up and down; any thread carves from the   *)
(* zones and returns to them.                                              *)
(***************************************************************************)
NextManager ==
    \/ Initialize(Owner)
    \/ InitializeReserve(Owner)
    \/ InitializeFinish(Owner)
    \/ Shutdown(Owner)
    \/ \E t \in Threads :
        \/ AllocateFromZone(t)
        \/ DeallocateToZone(t)
        \/ ZoneLock(t)
        \/ ZoneBump(t)
        \/ CalculateActualUsage(t)
        \/ UsagePeakLoad(t)
        \/ UsagePeakCas(t)
        \/ ZoneRelease(t)
        \/ ManagerResume(t)

\* the StackAllocator of the first part is not used: one of its initial
\* states stands for all
InitManager == Init /\ m_memory = 16 /\ headerSize = 0

SpecManager == InitManager /\ [][NextManager]_vars

(***************************************************************************)
(* One thread alone brings the manager up and down, creates allocators,    *)
(* carves from the zones and returns to them.                              *)
(***************************************************************************)
NextCreate ==
    \/ Initialize(Owner)
    \/ InitializeReserve(Owner)
    \/ InitializeFinish(Owner)
    \/ Shutdown(Owner)
    \/ CreateStackAllocator(Owner)
    \/ CreatePoolAllocator(Owner)
    \/ CreateHeapAllocator(Owner)
    \/ CreateLinearAllocator(Owner)
    \/ AllocateFromZone(Owner)
    \/ DeallocateToZone(Owner)
    \/ ZoneLock(Owner)
    \/ ZoneBump(Owner)
    \/ CalculateActualUsage(Owner)
    \/ UsagePeakLoad(Owner)
    \/ UsagePeakCas(Owner)
    \/ ZoneRelease(Owner)
    \/ ManagerResume(Owner)

SpecCreate == InitManager /\ [][NextCreate]_vars

(***************************************************************************)
(* One thread alone initializes the manager with any of the budgets and    *)
(* carves whole zones, any of the nine, until each is full.                *)
(***************************************************************************)
\* enough calls to fill every zone
MaxFills == Count

\* AllocateFromZone(z, size) with size the capacity of the zone
AllocateWholeZone(t) ==
    \E z \in MemoryZone :
        /\ initialized_
        /\ callCount["carve"] < MaxFills
        /\ zones_[z].offset = 0
        /\ ZoneCallBegin(t, "AllocateFromZone", z, zones_[z].totalSize, << >>)

NextStats ==
    \/ Initialize(Owner)
    \/ InitializeReserve(Owner)
    \/ InitializeFinish(Owner)
    \/ AllocateWholeZone(Owner)
    \/ DeallocateToZone(Owner)
    \/ ZoneLock(Owner)
    \/ ZoneBump(Owner)
    \/ CalculateActualUsage(Owner)
    \/ UsagePeakLoad(Owner)
    \/ UsagePeakCas(Owner)
    \/ ZoneRelease(Owner)
    \/ ManagerResume(Owner)

SpecStats == InitManager /\ [][NextStats]_vars

(***************************************************************************)
(* One thread initializes the manager; the threads carve from three zones  *)
(* and return to two of them.                                              *)
(***************************************************************************)
PeakZones == {FrameTemp, Entities, Debug}
MaxPeakCarves == MaxCarves + 1

\* AllocateFromZone(z, 4 MB) on one of the three zones
AllocateFromPeakZone(t) ==
    \E z \in PeakZones, sz \in ReturnedSizes :
        /\ initialized_
        /\ callCount["carve"] < MaxPeakCarves
        /\ ZoneCallBegin(t, "AllocateFromZone", z, sz, << >>)

NextPeak ==
    \/ Initialize(Owner)
    \/ InitializeReserve(Owner)
    \/ InitializeFinish(Owner)
    \/ \E t \in Threads :
        \/ AllocateFromPeakZone(t)
        \/ DeallocateToZone(t)
        \/ ZoneLock(t)
        \/ ZoneBump(t)
        \/ CalculateActualUsage(t)
        \/ UsagePeakLoad(t)
        \/ UsagePeakCas(t)
        \/ ZoneRelease(t)
        \/ ManagerResume(t)

SpecPeak == InitManager /\ [][NextPeak]_vars

(***************************************************************************)
(* Progress.  The threads work on the StackAllocator or on the manager;    *)
(* the two objects share no state, so the calls on one are followed with   *)
(* the other as it was constructed.  A thread inside a call goes on taking *)
(* steps (weak fairness); nothing makes a thread begin a call or go on     *)
(* after one.  compare_exchange_weak may fail with the expected value in   *)
(* place, but not every time it is tried (strong fairness of its success). *)
(***************************************************************************)
StackPcs == {"alloc_load", "alloc_cas", "alloc_count", "peak_load", "peak_cas",
             "rewind_store"}
StackCalls == {"Allocate", "Reset", "Rewind"}

StackUntouched ==
    /\ <<m_offset, m_peakUsage, m_allocationCount, maxUsed>> = <<0, 0, 0, 0>>
    /\ fresh = -1 /\ allocOnly
    /\ \A t \in Threads : pc[t] \notin StackPcs /\ op[t] \notin StackCalls

ManagerUntouched ==
    /\ osCalls = 0
    /\ \A k \in DOMAIN callCount : callCount[k] = 0
    /\ \A t \in Threads : pc[t] \in StackPcs \cup {"idle", "done"}
    /\ \A t \in Threads : op[t] \in StackCalls \cup {"none"}

\* the steps inside a call on the StackAllocator
StackStep(t) ==
    \/ AllocateLoad(t)
    \/ AllocateCasSuccess(t)
    \/ AllocateCasFail(t)
    \/ AllocateCount(t)
    \/ PeakLoad(t)
    \/ PeakCas(t)
    \/ RewindStore(t)

\* the steps inside a call on the manager
ManagerStep(t) ==
    \/ ZoneLock(t)
    \/ ZoneBump(t)
    \/ CalculateActualUsage(t)
    \/ UsagePeakLoad(t)
    \/ UsagePeakCas(t)

NextFair ==
    \E t \in Threads :
        \/ ManagerUntouched /\ Allocate(t)
        \/ ManagerUntouched /\ Reset(t)
        \/ ManagerUntouched /\ Rewind(t)
        \/ ManagerUntouched /\ AllocateLoad(t)
        \/ ManagerUntouched /\ AllocateCasSuccess(t)
        \/ ManagerUntouched /\ AllocateCasFail(t)
        \/ ManagerUntouched /\ AllocateCount(t)
        \/ ManagerUntouched /\ PeakLoad(t)
        \/ ManagerUntouched /\ PeakCas(t)
        \/ ManagerUntouched /\ RewindStore(t)
        \/ ManagerUntouched /\ Resume(t)
        \/ StackUntouched /\ t = Owner /\ Initialize(t)
        \/ StackUntouched /\ t = Owner /\ InitializeReserve(t)
        \/ StackUntouched /\ t = Owner /\ InitializeFinish(t)
        \/ StackUntouched /\ AllocateFromZone(t)
        \/ StackUntouched /\ ZoneLock(t)
        \/ StackUntouched /\ ZoneBump(t)
        \/ StackUntouched /\ CalculateActualUsage(t)
        \/ StackUntouched /\ UsagePeakLoad(t)
        \/ StackUntouched /\ UsagePeakCas(t)
        \/ StackUntouched /\ ManagerResume(t)

Fairness ==
    \A t \in Threads :
        /\ WF_vars(StackStep(t))
        /\ SF_vars(AllocateCasSuccess(t))
        /\ WF_vars(ManagerStep(t))

SpecFair == InitManager /\ [][NextFair]_vars /\ Fairness

(***************************************************************************)
(* MemoryBudget::GetZoneSize, MemoryConfig.h 193-210, called on budgets of *)
(* the caller's own.                                                       *)
(***************************************************************************)
\* Inputs: totals hold 0, small totals, the 100 MiB of the documentation and
\* totals that need more significant bits than a float has; limits hold
\* pairs with minSize above maxSize and a limit above every total; the zone
\* is listed twice.
TestTotals == {0, 1, 100, 100 * MB, 2 ^ MantissaBits + 1, 2 ^ MantissaBits + 3}
TestWeights == {0, 50, 100}
TestLimits == {0, 10, 60, 10 * MB, 80 * MB, 2 ^ MantissaBits + 4}
TestBudgets ==
    {[totalSize |-> tot,
      zoneAllocations |-> <<ZoneAllocation(FrameTemp, pct, mn, mx, TRUE),
                            ZoneAllocation(FrameTemp, 100, 7, 7, TRUE)>>] :
        tot \in TestTotals, pct \in TestWeights, mn \in TestLimits, mx \in TestLimits}

\* budget.GetZoneSize(z)
GetZoneSizeCall(t) ==
    \E budget \in TestBudgets, z \in ZonesUsed :
        /\ pc[t] = "idle"
        /\ Enter(t, "GetZoneSize", 0, 0, 0)
        /\ zone' = [zone EXCEPT ![t] = z]
        /\ requested' = [requested EXCEPT ![t] = <<budget>>]
        /\ ManagerReturn(t, GetZoneSize(budget, z))
        /\ UNCHANGED <<stackState, manager, managerHistory>>

NextBudget ==
    \/ GetZoneSizeCall(Owner)
    \/ ManagerResume(Owner)

SpecBudget == InitManager /\ [][NextBudget]_vars

(***************************************************************************)
(* Any thread calls Initialize: the calls run side by side, each step of   *)
(* one between any two steps of the other, as a sequentially consistent    *)
(* execution of the unsynchronized reads and writes of lines 33-65 lets    *)
(* them.  The OS has a second block to give while the first is held.       *)
(* Shutdown is called when no Initialize is running.                       *)
(***************************************************************************)
RaceBlocks == OSBlocks \cup {4 * GB}

\* a call of Initialize is between its test of initialized_ and its return
Initializing == \E u \in Threads : pc[u] \in {"init_reserve", "init_zones"}

NextRace ==
    \E t \in Threads :
        \/ Initialize(t)
        \/ InitializeReserveFrom(t, RaceBlocks)
        \/ InitializeFinish(t)
        \/ ~Initializing /\ Shutdown(t)
        \/ ManagerResume(t)

SpecRace == InitManager /\ [][NextRace]_vars

(***************************************************************************)
(* The registry: MemoryManager::RegisterAllocator, lines 406-423, and      *)
(* UnregisterAllocator, lines 425-439.  Each runs inside allocatorsMutex_  *)
(* from its first read of allocators_ to its return, one step here.        *)
(***************************************************************************)
\* Inputs: the allocators callers hold, nullptr among the arguments
Allocators == {1, 2}
MaxRegisters == 3

\* AllocatorInfo, as far as the registry reads it again: the allocator and
\* the zone (size, name and creationTime are written and not read back)
AllocatorInfo(allocator, z) == [allocator |-> allocator, zone |-> z]

\* a call on the registry: it has run to its return
RegistryCall(t, o, allocator, z) ==
    /\ pc[t] = "idle"
    /\ Enter(t, o, 0, 0, 0)
    /\ ManagerReturn(t, NULL)
    /\ zone' = [zone EXCEPT ![t] = z]
    /\ requested' = [requested EXCEPT ![t] = <<allocator>>]
    /\ UNCHANGED <<stackState, managerHistory, initialized_, globalMemory_,
                   globalMemorySize_, budget_, zones_, peakUsage_>>

RegisterAllocator(t) ==
    \E allocator \in Allocators \cup {NULL}, z \in ZonesUsed :
        /\ totalAllocatorCount_ < MaxRegisters
        /\ RegistryCall(t, "RegisterAllocator", allocator, z)
        /\ IF allocator = NULL
           THEN UNCHANGED <<allocators_, totalAllocatorCount_>>
           ELSE /\ allocators_' = Append(allocators_, AllocatorInfo(allocator, z))
                /\ totalAllocatorCount_' = totalAllocatorCount_ + 1

\* the records of s that reference allocator
RecordsOf(s, allocator) == {i \in 1 .. Len(s) : s[i].allocator = allocator}

\* std::find_if: the first record that references allocator, end() (one past
\* the last) if there is none
FindIf(s, allocator) ==
    IF RecordsOf(s, allocator) = {} THEN Len(s) + 1
    ELSE CHOOSE i \in RecordsOf(s, allocator) :
             \A j \in RecordsOf(s, allocator) : i <= j

\* allocators_.erase(it)
Erase(s, it) == SubSeq(s, 1, it - 1) \o SubSeq(s, it + 1, Len(s))

UnregisterAllocator(t) ==
    \E allocator \in Allocators \cup {NULL} :
        /\ RegistryCall(t, "UnregisterAllocator", allocator, 0)
        /\ UNCHANGED totalAllocatorCount_
        /\ LET it == FindIf(allocators_, allocator)
           IN  IF allocator = NULL \/ it = Len(allocators_) + 1
               THEN UNCHANGED allocators_
               ELSE allocators_' = Erase(allocators_, it)

(***************************************************************************)
(* Any thread registers and unregisters allocators; one thread brings the  *)
(* manager up and down (Shutdown clears the registry).                     *)
(***************************************************************************)
NextRegistry ==
    \/ Initialize(Owner)
    \/ InitializeReserve(Owner)
    \/ InitializeFinish(Owner)
    \/ Shutdown(Owner)
    \/ \E t \in Threads :
        \/ RegisterAllocator(t)
        \/ UnregisterAllocator(t)
        \/ ManagerResume(t)

SpecRegistry == InitManager /\ [][NextRegistry]_vars

\* MemoryManager::IsInitialized, GetZoneUsage, GetZoneReserved
IsInitialized == initialized_
GetZoneUsage(z) == zones_[z].usedSize
GetZoneReserved(z) == zones_[z].totalSize

\* GetGlobalStats().totalReserved, line 328
TotalReserved == globalMemorySize_

\* GetGlobalStats, lines 328-335, with no call running: CalculateActualUsage
\* sums the zones in size_t, and totalAvailable is a size_t difference
GetGlobalStats ==
    LET used == UsedFrom(0, Count - 1)
    IN  [totalReserved |-> globalMemorySize_,
         totalUsed |-> used,
         totalAvailable |-> SubZ(globalMemorySize_, used),
         peakUsage |-> peakUsage_,
         allocatorCount |-> Len(allocators_)]

(***************************************************************************)
(* StackAllocator::Validate, lines 216-234, and the observers.             *)
(***************************************************************************)
Validate == m_memory # NULL /\ ~(m_offset > m_size)
GetUsedMemory == m_offset
GetTotalMemory == m_size
GetPeakUsage == m_peakUsage
\* GetStats with activeAllocations counting the allocations still reserved
GetStatsLive ==
    [totalAllocated |-> m_size,
     totalUsed |-> GetUsedMemory,
     peakUsage |-> m_peakUsage,
     allocationCount |-> m_allocationCount,
     deallocationCount |-> 0,
     activeAllocations |-> Cardinality(live)]

\* GetStats, lines 173-181: the integer fields
GetStats ==
    [totalAllocated |-> m_size,
     totalUsed |-> GetUsedMemory,
     peakUsage |-> m_peakUsage,
     allocationCount |-> m_allocationCount,
     deallocationCount |-> 0,
     activeAllocations |-> IF m_allocationCount > 0 THEN m_allocationCount ELSE 0]

\* SupportsDeallocate, lines 258-261
SupportsDeallocate == FALSE

TypeOK ==
    /\ m_offset \in Word
    /\ m_peakUsage \in Word
    /\ m_casRetryCount = 0

(***************************************************************************)
(* Vocabulary of the properties.                                           *)
(***************************************************************************)
\* a power of two, stated without the bit trick of the code
IsPow2(a) == \E k \in 0 .. (WordBits - 1) : a = 2 ^ k

\* the thread holds the result of an Allocate call with valid arguments
ValidAllocateDone(t) ==
    /\ pc[t] = "done"
    /\ op[t] = "Allocate"
    /\ size[t] > 0
    /\ IsPow2(alignment[t])

\* the thread is between its write of the cursor and its update of the peak
PeakPending(t) == pc[t] \in {"alloc_count", "peak_load", "peak_cas"}

Disjoint(r1, r2) == r1.hi <= r2.lo \/ r2.hi <= r1.lo
LiveDisjoint == \A r1, r2 \in live : r1 # r2 => Disjoint(r1, r2)

RECURSIVE SumReserved(_)
SumReserved(S) ==
    IF S = {} THEN 0
    ELSE LET r == CHOOSE x \in S : TRUE
         IN  (r.hi - r.lo) + SumReserved(S \ {r})

StatsUnchanged ==
    /\ m_offset' = m_offset
    /\ m_peakUsage' = m_peakUsage
    /\ m_allocationCount' = m_allocationCount

(***************************************************************************)
(* C1.  A successful Allocate(size, alignment) with size > 0 and a power   *)
(* of two alignment returns p with base <= p, p + size <= base + capacity, *)
(* p a multiple of alignment, and reserves a range disjoint from every     *)
(* other range reserved since the last Reset or Rewind below it.           *)
(* Violated: a size close to the largest size_t wraps alignedOffset + size.*)
(***************************************************************************)
C1_AllocateInBounds ==
    /\ \A t \in Threads :
        (ValidAllocateDone(t) /\ ret[t] # NULL) =>
            /\ m_memory <= ret[t]
            /\ ret[t] + size[t] <= m_memory + m_size
            /\ ret[t] % alignment[t] = 0
    /\ LiveDisjoint

(***************************************************************************)
(* C2.  Threads that only call Allocate: all calls succeed, the reserved   *)
(* ranges are pairwise disjoint and, once all calls have returned,         *)
(* GetUsedMemory() is the sum of the bytes reserved.                       *)
(***************************************************************************)
AllSucceedDisjointExact ==
    /\ \A t \in Threads : ValidAllocateDone(t) => ret[t] # NULL
    /\ LiveDisjoint
    /\ Quiescent => Cardinality(live) = m_allocationCount
    /\ Quiescent => GetUsedMemory = SumReserved(live)

\* C2 as claimed: whenever the request sizes sum to at most the capacity
C2_SizesFit == (allocOnly /\ sumSizes <= m_size) => AllSucceedDisjointExact

\* C2 amended: whenever the sizes together with the worst-case overhead of
\* each call (headerSize + alignment - 1) sum to at most the capacity
C2_FootprintsFit == (allocOnly /\ sumFootprint <= m_size) => AllSucceedDisjointExact

C2_Witness ==
    /\ allocOnly
    /\ sumFootprint <= m_size
    /\ Cardinality(live) >= 2
    /\ \A t \in Threads : ValidAllocateDone(t) /\ ret[t] # NULL

(***************************************************************************)
(* C3.  In every reachable state, under any interleaving of Allocate,      *)
(* Reallocate, Deallocate, Rewind and Reset, cursor <= capacity, and       *)
(* Validate() returns true.                                                *)
(***************************************************************************)
C3_CursorWithinCapacity == GetUsedMemory <= GetTotalMemory /\ Validate

C3_Witness == m_offset = m_size /\ m_allocationCount > 0

(***************************************************************************)
(* C4.  An Allocate call whose computed newCursor exceeds the capacity     *)
(* returns null and leaves cursor, peak usage and allocation count as they *)
(* were.                                                                   *)
(***************************************************************************)
C4_OutOfMemoryNoChange ==
    [][\A t \in Threads :
        ( /\ pc[t] = "alloc_load"
          /\ pc'[t] # "alloc_load"
          /\ NewOffset(AlignedOffset(m_offset, alignment[t]), size[t]) > m_size )
        => (pc'[t] = "done" /\ ret'[t] = NULL /\ StatsUnchanged)]_vars

C4_Witness ==
    \E t \in Threads :
        /\ ValidAllocateDone(t)
        /\ ret[t] = NULL
        /\ m_offset > 0
        /\ m_allocationCount > 0

(***************************************************************************)
(* C5.  Allocate(size, alignment) with size = 0, or with an alignment that *)
(* is 0 or no power of two, returns null and changes neither cursor, peak  *)
(* usage nor allocation count.                                             *)
(***************************************************************************)
C5_InvalidArguments ==
    [][\A t \in Threads :
        ( /\ pc[t] = "idle"
          /\ op'[t] = "Allocate"
          /\ (size'[t] = 0 \/ ~IsPow2(alignment'[t])) )
        => (pc'[t] = "done" /\ ret'[t] = NULL /\ StatsUnchanged)]_vars

C5_Witness ==
    \E t \in Threads :
        /\ pc[t] = "done"
        /\ op[t] = "Allocate"
        /\ (size[t] = 0 \/ ~IsPow2(alignment[t]))
        /\ ret[t] = NULL
        /\ m_offset > 0

(***************************************************************************)
(* C6.  After Reset() returns with no call running, GetUsedMemory() is 0   *)
(* and every Allocate call that follows, one at a time, returns what a     *)
(* freshly constructed allocator of the same memory returns for the same   *)
(* calls, and leaves the cursor where that allocator's cursor is.          *)
(***************************************************************************)
C6_ResetRestoresFreshState ==
    /\ [][\A t \in Threads :
            (pc[t] = "idle" /\ op'[t] = "Reset" /\ Alone(t)) => GetUsedMemory' = 0]_vars
    /\ []((fresh # -1 /\ Quiescent) => GetUsedMemory = fresh)
    /\ [][\A t \in Threads :
            ( /\ fresh # -1
              /\ fresh' # -1
              /\ pc[t] # "done"
              /\ pc'[t] = "done"
              /\ op'[t] = "Allocate" )
            => ret'[t] = SeqAllocate(fresh, size'[t], alignment'[t]).ptr]_vars

C6_Witness ==
    /\ fresh > 0
    /\ Quiescent
    /\ \E t \in Threads : ValidAllocateDone(t) /\ ret[t] # NULL

(***************************************************************************)
(* C7.  Rewind(GetMarker()) with no operation in between leaves            *)
(* GetUsedMemory(), peak usage and allocation count unchanged.             *)
(***************************************************************************)
C7_RewindToMarkerIsNoOp ==
    [][\A t \in Threads :
        ( /\ op'[t] = "ScopeDtor"
          /\ pc'[t] # pc[t]
          /\ pc'[t] \in {"rewind_store", "done"}
          /\ Top(scopes[t]).seen = 0 )
        => StatsUnchanged]_vars

C7_Witness ==
    \E t \in Threads :
        /\ pc[t] = "done"
        /\ op[t] = "ScopeDtor"
        /\ Top(scopes[t]).seen = 0
        /\ m_offset > 0
        /\ m_offset = marker[t]

(***************************************************************************)
(* C8.  Rewind(marker) with marker > capacity or marker > current cursor   *)
(* is rejected and leaves cursor and counters unchanged; otherwise it sets *)
(* the cursor to exactly marker.                                           *)
(***************************************************************************)
C8_RewindChecksMarker ==
    [][\A t \in Threads :
        /\ (pc[t] = "idle" /\ op'[t] = "Rewind") =>
               /\ StatsUnchanged
               /\ pc'[t] = IF marker'[t] > m_size \/ marker'[t] > m_offset
                           THEN "done" ELSE "rewind_store"
        /\ (pc[t] = "rewind_store" /\ pc'[t] = "done" /\ op[t] = "Rewind") =>
               /\ m_offset' = marker[t]
               /\ marker[t] <= m_size
               /\ marker[t] <= currentOffset[t]
               /\ m_peakUsage' = m_peakUsage
               /\ m_allocationCount' = m_allocationCount]_vars

C8_Witness ==
    \E t \in Threads :
        /\ pc[t] = "done"
        /\ op[t] = "Rewind"
        /\ marker[t] > 0
        /\ m_offset = marker[t]
        /\ maxUsed > marker[t]

(***************************************************************************)
(* C9.  GetPeakUsage() never decreases and equals the largest value        *)
(* GetUsedMemory() has had.                                                *)
(***************************************************************************)
\* C9 as claimed: at every point at which the peak can be observed
C9_PeakIsMaxUsed == GetPeakUsage = maxUsed /\ GetPeakUsage >= GetUsedMemory

\* C9 amended: the peak never decreases, never exceeds the largest value the
\* cursor has had, and equals it whenever no Allocate call is between its
\* write of the cursor and its update of the peak
C9_PeakMonotoneAndSettled ==
    /\ [][m_peakUsage' >= m_peakUsage]_vars
    /\ [](GetPeakUsage <= maxUsed)
    /\ []((\A t \in Threads : ~PeakPending(t)) =>
            (GetPeakUsage = maxUsed /\ GetPeakUsage >= GetUsedMemory))

C9_Witness ==
    /\ Quiescent
    /\ GetPeakUsage = maxUsed
    /\ GetPeakUsage > GetUsedMemory
    /\ GetUsedMemory > 0

(***************************************************************************)
(* C10.  When a StackAllocatorScope is destroyed the cursor equals the     *)
(* marker captured at its construction, for every sequence of Allocate     *)
(* calls and properly nested inner scopes of the owning thread in between. *)
(* Violated: an Allocate whose size wraps newOffset moves the cursor below *)
(* the marker, and the destructor's Rewind is then rejected.               *)
(***************************************************************************)
C10_ScopeRestoresMarker ==
    \A t \in Threads :
        (pc[t] = "done" /\ op[t] = "ScopeDtor" /\ Top(scopes[t]).seen <= 1)
            => GetUsedMemory = Top(scopes[t]).m_marker


(***************************************************************************)
(* Zones and the block, in the words of the claims on MemoryManager.       *)
(***************************************************************************)
\* the zones a budget lists
Listed(budget) ==
    {budget.zoneAllocations[i].zone : i \in 1 .. Len(budget.zoneAllocations)}

\* [base, base + capacity) of zone z lies in [block, block + totalBytes)
ZoneInBlock(z) ==
    /\ zones_[z].baseAddress >= globalMemory_
    /\ zones_[z].baseAddress + zones_[z].totalSize
           <= globalMemory_ + globalMemorySize_

\* the sum of the sizes a budget realizes
RECURSIVE SumOfZoneSizes(_, _)
SumOfZoneSizes(budget, i) ==
    IF i > Len(budget.zoneAllocations) THEN 0
    ELSE GetZoneSize(budget, budget.zoneAllocations[i].zone)
             + SumOfZoneSizes(budget, i + 1)

(***************************************************************************)
(* C11.  After a successful Initialize(budget) every zone's byte range     *)
(* [base, base + capacity) lies inside the reserved block [block, block +  *)
(* totalBytes), for every budget, the three presets included: the realized *)
(* zone sizes sum to at most totalBytes.                                   *)
(* Violated: the percentages of DefaultGameEngine sum to 110% and its      *)
(* clamped sizes to 1088 MiB, more than its totalSize of 1024 MiB; the     *)
(* zones General and Debug end beyond the block.                           *)
(***************************************************************************)
C11_ZonesInsideBlock ==
    initialized_ =>
        /\ \A z \in Listed(budget_) : ZoneInBlock(z)
        /\ SumOfZoneSizes(budget_, 1) <= budget_.totalSize


\* base and capacity of every zone
Layout == [z \in MemoryZone |-> <<zones_[z].baseAddress, zones_[z].totalSize>>]

\* the zones budget_ lists from entry i on start at address, one after the
\* other, each of the size the budget gives it
RECURSIVE LaidOutFrom(_, _)
LaidOutFrom(address, i) ==
    IF i > Len(budget_.zoneAllocations) THEN TRUE
    ELSE LET z == budget_.zoneAllocations[i].zone
         IN  /\ zones_[z].baseAddress = address
             /\ zones_[z].totalSize = GetZoneSize(budget_, z)
             /\ LaidOutFrom(address + zones_[z].totalSize, i + 1)

\* [base, base + capacity) of two zones share no byte
ZonesApart(a, b) ==
    \/ zones_[a].baseAddress + zones_[a].totalSize <= zones_[b].baseAddress
    \/ zones_[b].baseAddress + zones_[b].totalSize <= zones_[a].baseAddress

ZonesDisjoint ==
    \A a, b \in MemoryZone :
        (a # b /\ zones_[a].totalSize > 0 /\ zones_[b].totalSize > 0)
            => ZonesApart(a, b)

\* the calls that work on a zone
ZoneOps == CarveOps \cup {"DeallocateToZone"}

(***************************************************************************)
(* C12.  After a successful Initialize(budget) the zones the budget lists  *)
(* lie in declaration order, each base the previous listed zone's base     *)
(* plus its size, so the ranges of any two distinct zones of non-zero      *)
(* capacity are disjoint; no AllocateFromZone, DeallocateToZone or         *)
(* Create*Allocator call changes a base or a capacity.                     *)
(* Violated: Initialize(DefaultMobile), Shutdown, Initialize(CustomBudget) *)
(* leaves the zones CustomBudget does not list with the ranges of the      *)
(* first layout, which overlap the two new zones.                          *)
(***************************************************************************)
C12_ZonesLaidOutAndFixed ==
    /\ [](initialized_ => (LaidOutFrom(globalMemory_, 1) /\ ZonesDisjoint))
    /\ [][\A t \in Threads : op'[t] \in ZoneOps => Layout' = Layout]_vars


\* thread t takes the step of AllocateFromZone that tests and bumps
Bumps(t) == pc[t] = "zone_bump" /\ pc'[t] # "zone_bump"

(***************************************************************************)
(* C13.  AllocateFromZone(zone, size) with cursor + size > capacity        *)
(* returns null and leaves the cursor and the used bytes of the zone and   *)
(* of every other zone unchanged; otherwise it returns base + oldCursor,   *)
(* advances the cursor by exactly size and adds exactly size to the used   *)
(* bytes.                                                                  *)
(* Violated: with the cursor at 4 MiB and a size 1 MiB below the largest   *)
(* size_t, currentOffset + size wraps to 3 MiB, the test passes and the    *)
(* call returns base + 4 MiB.                                              *)
(***************************************************************************)
C13_AllocateFromZoneChecksCapacity ==
    [][\A t \in Threads :
        (Bumps(t) /\ op[t] = "AllocateFromZone") =>
            LET data == zones_[zone[t]]
            IN  IF data.offset + size[t] > data.totalSize
                THEN ret'[t] = NULL /\ Usage' = Usage
                ELSE /\ ret'[t] = data.baseAddress + data.offset
                     /\ zones_'[zone[t]].offset = data.offset + size[t]
                     /\ zones_'[zone[t]].usedSize = data.usedSize + size[t]
                     /\ \A z \in MemoryZone \ {zone[t]} : Usage'[z] = Usage[z]]_vars


\* two sub-blocks share no byte
BlocksApart(a, b) ==
    a.ptr + a.size <= b.ptr \/ b.ptr + b.size <= a.ptr

\* sub-block b lies in the range of the zone it was carved from
BlockInZone(b) ==
    /\ b.ptr >= zones_[b.zone].baseAddress
    /\ b.ptr + b.size <= zones_[b.zone].baseAddress + zones_[b.zone].totalSize

\* thread t is inside the lock_guard of the mutex it took
InsideLock(t) ==
    pc[t] \in {"zone_bump", "calculate", "usage_peak_load", "usage_peak_cas",
               "zone_release"}

\* a thread waits for a zone's mutex only while a call on that same zone
\* holds it
WaitsOnlyForOwnZone ==
    \A t \in Threads :
        (pc[t] = "zone_lock" /\ zones_[zone[t]].mutex # "free") =>
            \E u \in Threads \ {t} :
                InsideLock(u) /\ zone[u] = zone[t] /\ zones_[zone[t]].mutex = u

(***************************************************************************)
(* C14.  The sub-blocks returned by the successful AllocateFromZone calls  *)
(* since Initialize are pairwise disjoint and each lies inside the range   *)
(* of its zone, in every interleaving of AllocateFromZone and              *)
(* DeallocateToZone calls on one zone and on different zones; calls on     *)
(* different zones never block each other.                                 *)
(* Violated: an AllocateFromZone whose size wraps currentOffset + size     *)
(* succeeds and returns a sub-block that ends far beyond its zone.         *)
(***************************************************************************)
C14_SubBlocksDisjointInZone ==
    /\ initialized_ =>
           /\ \A b \in issued : BlockInZone(b)
           /\ \A a, b \in issued : a # b => BlocksApart(a, b)
    /\ WaitsOnlyForOwnZone


\* thread t takes the step of DeallocateToZone that works on the zone
Releases(t) == pc[t] = "zone_release" /\ pc'[t] # "zone_release"

\* the address the next AllocateFromZone on zone z returns
NextAddress(z) == zones_[z].baseAddress + zones_[z].offset

(***************************************************************************)
(* C15.  DeallocateToZone(zone, ptr, size) never changes the zone's        *)
(* cursor: after any number of DeallocateToZone calls a later              *)
(* AllocateFromZone never returns an address below the cursor reached      *)
(* before them, so bytes handed out are never handed out again; the call   *)
(* only takes size off the used bytes.                                     *)
(* Violated: after AllocateFromZone(4 MiB) and DeallocateToZone(4 MiB), an *)
(* AllocateFromZone whose size wraps currentOffset + size leaves the       *)
(* cursor at 3 MiB, inside the sub-block handed out first.                 *)
(***************************************************************************)
C15_DeallocateKeepsCursor ==
    /\ [][\A t \in Threads :
            Releases(t) =>
                LET data == zones_[zone[t]]
                IN  /\ \A z \in MemoryZone : zones_'[z].offset = zones_[z].offset
                    /\ Layout' = Layout
                    /\ data.usedSize >= size[t] =>
                           zones_'[zone[t]].usedSize = data.usedSize - size[t]
                    /\ \A z \in MemoryZone \ {zone[t]} :
                           zones_'[z].usedSize = zones_[z].usedSize]_vars
    /\ [](initialized_ =>
            \A b \in issued : NextAddress(b.zone) >= b.ptr + b.size)


\* thread t returns from a call whose AllocateFromZone carved a sub-block
ReturnsCarved(t) ==
    pc[t] \in {"usage_peak_load", "usage_peak_cas"} /\ pc'[t] = "done"

(***************************************************************************)
(* C16.  When the manager is initialized and the zone has the adjusted     *)
(* size left, CreateStackAllocator(zone, size, name) returns a non-null    *)
(* owning handle to an allocator over the carved block, and the allocator  *)
(* is registered: the registry holds one allocator more.                   *)
(* Violated: after the carve CreateStackAllocator ends in return nullptr;  *)
(* no allocator is constructed and none is registered.                     *)
(***************************************************************************)
C16_CreateStackAllocatorReturnsHandle ==
    [][\A t \in Threads :
        (op[t] = "CreateStackAllocator" /\ ReturnsCarved(t)) =>
            /\ ret'[t] # NULL
            /\ Len(allocators_') = Len(allocators_) + 1]_vars


\* the four calls that create an allocator
CreateOps == CarveOps \ {"AllocateFromZone"}

\* thread t begins a call of one of CreateOps
Creates(t) == pc[t] = "idle" /\ op'[t] \in CreateOps

(***************************************************************************)
(* C17.  CreateStackAllocator, CreatePoolAllocator, CreateHeapAllocator    *)
(* and CreateLinearAllocator return null when the manager is not           *)
(* initialized, and touch no zone's cursor or used bytes; they return null *)
(* when the zone lacks capacity for the adjusted size, and again leave the *)
(* zones as they were.                                                     *)
(***************************************************************************)
C17_CreateFailsWithoutEffect ==
    [][\A t \in Threads :
        /\ (Creates(t) /\ ~initialized_) =>
               (pc'[t] = "done" /\ ret'[t] = NULL /\ Usage' = Usage)
        /\ (Bumps(t) /\ op[t] \in CreateOps
                /\ zones_[zone[t]].offset + size[t] > zones_[zone[t]].totalSize) =>
               (pc'[t] = "done" /\ ret'[t] = NULL /\ Usage' = Usage)]_vars

\* a Create*Allocator call has returned null from a zone that holds a
\* sub-block and has too little left for the adjusted size
C17_Witness ==
    \E t \in Threads :
        /\ pc[t] = "done" /\ op[t] \in CreateOps /\ ret[t] = NULL
        /\ initialized_
        /\ zones_[zone[t]].offset > 0
        /\ zones_[zone[t]].offset + size[t] > zones_[zone[t]].totalSize
        /\ \E b \in issued : b.zone = zone[t]
        /\ \A b \in issued : b.zone = zone[t] => b.size # size[t]


\* the size the claim gives a request: the size itself inside [min, max] of
\* the type, the default of the type outside
InRangeOr(sz, min, max, default) ==
    IF min <= sz /\ sz <= max THEN sz ELSE default

\* the bytes Create*Allocator is to carve for its arguments; the product of
\* CreatePoolAllocator is the product of the two numbers
ClaimedSize(o, args) ==
    CASE o = "CreateStackAllocator" ->
             InRangeOr(args[1], 256 * KB, 256 * MB, 2 * MB)
      [] o = "CreateHeapAllocator" ->
             InRangeOr(args[1], 1 * MB, 256 * MB, 32 * MB)
      [] o = "CreateLinearAllocator" ->
             InRangeOr(args[1], 64 * KB, 256 * MB, 1 * MB)
      [] o = "CreatePoolAllocator" ->
             InRangeOr(args[1] * args[2], 4 * KB, 256 * MB, 4 * MB)

(***************************************************************************)
(* C18.  The number of bytes a Create*Allocator call carves from the zone  *)
(* lies in the valid range of the type: for Stack the requested size if    *)
(* 256 KiB <= size <= 256 MiB and else, size 0 included, 2 MiB; for Heap   *)
(* [1 MiB, 256 MiB] else 32 MiB; for Linear [64 KiB, 256 MiB] else 1 MiB;  *)
(* for Pool elementSize * elementCount if in [4 KiB, 256 MiB], else 4 MiB. *)
(* Violated: CreatePoolAllocator with elementSize 2 MiB and an             *)
(* elementCount for which elementSize * elementCount wraps to 2 MiB carves *)
(* 2 MiB, neither the product nor 4 MiB.                                   *)
(***************************************************************************)
C18_CarvedSizeInTypeRange ==
    [][\A t \in Threads :
        (Bumps(t) /\ op[t] \in CreateOps /\ pc'[t] = "calculate") =>
            zones_'[zone[t]].offset - zones_[zone[t]].offset
                = ClaimedSize(op[t], requested[t])]_vars


\* thread t begins a call of Initialize
Initializes(t) == pc[t] = "idle" /\ op'[t] = "Initialize"

(***************************************************************************)
(* C19.  Initialize(budget) on a manager that is initialized returns true, *)
(* does not call the OS reservation again, and leaves the stored budget,   *)
(* the block and every zone's base, capacity, cursor and used bytes as     *)
(* they were, also when the second budget differs from the first.          *)
(***************************************************************************)
C19_SecondInitializeIsNoOp ==
    [][\A t \in Threads :
        (Initializes(t) /\ initialized_) =>
            /\ pc'[t] = "done" /\ ret'[t] = Bool(TRUE)
            /\ osCalls' = osCalls /\ osLive' = osLive
            /\ Snapshot' = Snapshot]_vars

\* a second Initialize with another budget has returned true on a manager
\* whose zones are in use, after one reservation
C19_Witness ==
    \E t \in Threads :
        /\ pc[t] = "done" /\ op[t] = "Initialize" /\ ret[t] = Bool(TRUE)
        /\ entry[t].before.initialized
        /\ entry[t].budget # budget_
        /\ osCalls = 1
        /\ \E z \in ZonesUsed : zones_[z].offset > 0

(***************************************************************************)
(* C20.  If the OS reservation fails, Initialize returns false and the     *)
(* manager is as it was before the call: IsInitialized() is false, and the *)
(* stored budget, the reserved size GetGlobalStats().totalReserved         *)
(* reports, the block pointer and all zone data are unchanged.             *)
(* Violated: budget_ and globalMemorySize_ are assigned before the block   *)
(* is asked for and are not restored when the reservation fails.           *)
(***************************************************************************)
C20_FailedInitializeRestoresState ==
    \A t \in Threads :
        (pc[t] = "done" /\ op[t] = "Initialize" /\ ret[t] = Bool(FALSE)) =>
            /\ ~IsInitialized
            /\ budget_ = entry[t].before.budget
            /\ TotalReserved = entry[t].before.size
            /\ globalMemory_ = entry[t].before.memory
            /\ zones_ = entry[t].before.zones


\* thread t calls Shutdown
ShutsDown(t) == pc[t] = "idle" /\ op'[t] = "Shutdown"

\* a call of Initialize holds a block it has not yet made the manager's
Reserving == \E t \in Threads : pc[t] = "init_zones"

(***************************************************************************)
(* C21.  Across any sequence of Initialize and Shutdown calls every block  *)
(* the OS reserved is released exactly once: Shutdown on an initialized    *)
(* manager releases the block and makes IsInitialized() false, Shutdown on *)
(* a manager that is not initialized does nothing, and no block is         *)
(* released twice or left unreleased while the manager is not initialized. *)
(***************************************************************************)
C21_BlockReleasedExactlyOnce ==
    /\ [](IsInitialized => osLive = {globalMemory_})
    /\ []((~IsInitialized /\ ~Reserving) => osLive = {})
    /\ [][\A t \in Threads :
            ShutsDown(t) =>
                IF IsInitialized
                THEN /\ globalMemory_ \in osLive
                     /\ osLive' = osLive \ {globalMemory_}
                     /\ ~IsInitialized'
                ELSE UNCHANGED <<manager, osLive>>]_vars

\* Shutdown has released the second of two blocks: the zones hold the layout
\* of CustomBudget and, in a zone it does not list, that of an earlier preset
C21_Witness ==
    \E t \in Threads :
        /\ pc[t] = "done" /\ op[t] = "Shutdown"
        /\ ~IsInitialized
        /\ osCalls = 2
        /\ osLive = {}
        /\ globalMemory_ = NULL
        /\ budget_ = CustomBudget
        /\ zones_[Entities].totalSize > 0


(***************************************************************************)
(* MemoryBudget::GetZoneSize in the words of the claims.                   *)
(***************************************************************************)
\* a call of GetZoneSize has returned to thread t
SizeReturned(t) == pc[t] = "done" /\ op[t] = "GetZoneSize"

\* the entries of the budget passed by t that name the zone asked for
EntriesAsked(t) ==
    LET za == requested[t][1].zoneAllocations
    IN  {i \in 1 .. Len(za) : za[i].zone = zone[t]}

EntryAsked(t, i) == requested[t][1].zoneAllocations[i]

\* the first of them
FirstAsked(t) == CHOOSE i \in EntriesAsked(t) : \A j \in EntriesAsked(t) : i <= j

(***************************************************************************)
(* C22.  For every entry of the budget, every totalBytes >= 0 and every    *)
(* weight, totalBytes = 0, weight = 0 and entries with minBytes > maxBytes *)
(* included, GetZoneSize(zone) returns a value v with minBytes <= v <=     *)
(* maxBytes; with totalBytes = 0 it returns minBytes.  The entry is read   *)
(* as the one GetZoneSize uses, the first of the zone.                     *)
(* Violated: no value lies in an empty range; an entry with minBytes 10    *)
(* and maxBytes 0 gives 0, for totalBytes = 0 as well.                     *)
(***************************************************************************)
C22_ZoneSizeWithinLimits ==
    \A t \in Threads :
        (SizeReturned(t) /\ EntriesAsked(t) # {}) =>
            LET e == EntryAsked(t, FirstAsked(t))
            IN  /\ e.minSize <= ret[t]
                /\ ret[t] <= e.maxSize
                /\ requested[t][1].totalSize = 0 => ret[t] = e.minSize

\* C22 amended: the first entry of the zone decides.  With minBytes <=
\* maxBytes the value lies in [minBytes, maxBytes] and is minBytes for
\* totalBytes = 0; with minBytes > maxBytes it is maxBytes.
C22_ZoneSizeWithinFirstLimits ==
    \A t \in Threads :
        (SizeReturned(t) /\ EntriesAsked(t) # {}) =>
            LET e == EntryAsked(t, FirstAsked(t))
            IN  IF e.minSize <= e.maxSize
                THEN /\ e.minSize <= ret[t]
                     /\ ret[t] <= e.maxSize
                     /\ requested[t][1].totalSize = 0 => ret[t] = e.minSize
                ELSE ret[t] = e.maxSize

\* GetZoneSize has returned minBytes > 0 for a budget of 0 bytes
C22_Witness ==
    \E t \in Threads :
        /\ SizeReturned(t) /\ EntriesAsked(t) # {}
        /\ requested[t][1].totalSize = 0
        /\ EntryAsked(t, FirstAsked(t)).minSize > 0
        /\ EntryAsked(t, FirstAsked(t)).minSize < EntryAsked(t, FirstAsked(t)).maxSize
        /\ ret[t] = EntryAsked(t, FirstAsked(t)).minSize


(***************************************************************************)
(* C23.  For a zone listed in the budget with minBytes <= maxBytes,        *)
(* GetZoneSize(zone) equals clamp(floor(totalBytes * weight), minBytes,    *)
(* maxBytes) computed from the first entry of that zone; for a zone with   *)
(* no entry it returns 0.                                                  *)
(* Violated: the product is formed in single precision, so a total of      *)
(* 2^24 + 1 with weight 1.0 and limits 0 and 2^24 + 4 gives 2^24.          *)
(***************************************************************************)
C23_ZoneSizeIsClampedShare ==
    \A t \in Threads :
        SizeReturned(t) =>
            IF EntriesAsked(t) = {}
            THEN ret[t] = 0
            ELSE LET e == EntryAsked(t, FirstAsked(t))
                 IN  e.minSize <= e.maxSize =>
                        ret[t] = ClampZoneSize(
                            CalculatedExact(requested[t][1].totalSize, e.percentage),
                            e.minSize, e.maxSize)


Deallocates(t) == pc[t] = "idle" /\ op'[t] = "Deallocate"

(***************************************************************************)
(* C24.  Deallocate(ptr) changes no allocator state for any ptr: cursor,   *)
(* peak and allocation count are unchanged and the bytes are not reissued  *)
(* by a later Allocate (the ranges handed out stay reserved, and the       *)
(* cursor stays where it is in an allocator that was given the same        *)
(* Allocate calls and no Deallocate); SupportsDeallocate() is false.       *)
(***************************************************************************)
C24_DeallocateIsNoOp ==
    /\ [](~SupportsDeallocate)
    /\ [][\A t \in Threads :
            Deallocates(t) =>
                /\ StatsUnchanged
                /\ UNCHANGED <<m_memory, m_size, m_casRetryCount, live>>
                /\ pc'[t] = "done"]_vars
    /\ [](\A t \in Threads :
            (pc[t] = "done" /\ op[t] = "Deallocate" /\ Quiescent /\ fresh # -1)
                => GetUsedMemory = fresh)

\* Deallocate has returned on an allocator that holds allocations
C24_Witness ==
    \E t \in Threads :
        /\ pc[t] = "done" /\ op[t] = "Deallocate"
        /\ Quiescent
        /\ fresh > InitialOffset
        /\ GetUsedMemory > 0
        /\ live # {}
        /\ m_allocationCount > 0


\* calls past line 71 that have not returned yet
CountedInFlight == Cardinality({u \in Threads : pc[u] \in {"peak_load", "peak_cas"}})

\* the calls of Allocate that return non-null in this step
ReturnsBlock == {t \in Threads :
    pc[t] # "done" /\ pc'[t] = "done" /\ op'[t] = "Allocate" /\ ret'[t] # NULL}

(***************************************************************************)
(* C25.  In every quiescent state GetStats() reports totalAllocated ==     *)
(* capacity, totalUsed == cursor, deallocationCount == 0, allocationCount  *)
(* == the number of Allocate calls that have returned non-null since       *)
(* construction (Reset and Rewind do not reduce it), and activeAllocations *)
(* == allocationCount.                                                     *)
(* The number of calls is counted step by step: allocationCount less the   *)
(* calls counted at line 71 that have not returned yet starts at 0 and     *)
(* grows by one exactly with each Allocate that returns non-null.          *)
(***************************************************************************)
C25_StatsWhenQuiescent ==
    /\ GetStats.allocationCount = 0
    /\ [][GetStats.allocationCount' - CountedInFlight' =
            GetStats.allocationCount - CountedInFlight + Cardinality(ReturnsBlock)]_vars
    /\ [](Quiescent =>
            /\ CountedInFlight = 0
            /\ GetStats.totalAllocated = GetTotalMemory
            /\ GetStats.totalUsed = GetUsedMemory
            /\ GetStats.deallocationCount = 0
            /\ GetStats.activeAllocations = GetStats.allocationCount)

\* two Allocate calls have returned non-null and a Reset has emptied the
\* allocator since
C25_Witness ==
    /\ Quiescent
    /\ GetStats.allocationCount = 2
    /\ GetStats.activeAllocations = 2
    /\ GetStats.totalUsed = 0
    /\ live = {}
    /\ \E t \in Threads : pc[t] = "done" /\ op[t] = "Reset"


(***************************************************************************)
(* C26.  GetGlobalStats() called in a quiescent state of an initialized    *)
(* manager reports totalUsed equal to the sum of the used bytes of all     *)
(* zones, totalUsed <= totalReserved, and totalAvailable == totalReserved  *)
(* - totalUsed with no unsigned underflow, after any sequence of           *)
(* AllocateFromZone and DeallocateToZone calls and for any budget.         *)
(* Violated: the zones of DefaultGameEngine hold 1088 MiB of a 1024 MiB    *)
(* block; once more than 1024 MiB are carved the difference wraps.         *)
(***************************************************************************)
C26_GlobalStatsConsistent ==
    (Quiescent /\ IsInitialized) =>
        /\ GetGlobalStats.totalUsed = SumOfUsedBytes(0)
        /\ GetGlobalStats.totalUsed <= GetGlobalStats.totalReserved
        /\ GetGlobalStats.totalAvailable =
               GetGlobalStats.totalReserved - GetGlobalStats.totalUsed


InCasLoop(t) == pc[t] \in {"alloc_load", "alloc_cas"}

InsideAllocate(t) ==
    pc[t] \in {"alloc_load", "alloc_cas", "alloc_count", "peak_load", "peak_cas"}

\* a call on the StackAllocator returns in this step
CallReturns == \E t \in Threads : pc[t] \in StackPcs \cup {"idle"} /\ pc'[t] = "done"

HoldsZoneMutex(t) ==
    /\ op[t] = "AllocateFromZone"
    /\ pc[t] \in {"zone_bump", "calculate", "usage_peak_load", "usage_peak_cas"}

AllocateWrites(t) == pc[t] = "alloc_cas" /\ pc'[t] = "alloc_count"

\* thread t takes the step in which Rewind writes the cursor
RewindWrites(t) == pc[t] = "rewind_store" /\ pc'[t] = "done"

(***************************************************************************)
(* C28.  The cursor only increases through a successful Allocate: a        *)
(* Rewind(marker) never leaves the cursor larger than it was immediately   *)
(* before Rewind's write, and a Reset always leaves it at 0, in every      *)
(* interleaving of Rewind with concurrent Reset, Rewind and Allocate.      *)
(* Violated: Rewind tests the marker against a cursor it loaded earlier;   *)
(* after a Reset in between, its store raises the cursor from 0 to marker. *)
(***************************************************************************)
C28_CursorRisesOnlyByAllocate ==
    [][/\ \A t \in Threads : RewindWrites(t) => GetUsedMemory' <= GetUsedMemory
       /\ \A t \in Threads : (pc[t] = "idle" /\ op'[t] = "Reset") => GetUsedMemory' = 0
       /\ GetUsedMemory' > GetUsedMemory => \E t \in Threads : AllocateWrites(t)]_vars


UpdatingPeak(t) == pc[t] \in {"calculate", "usage_peak_load", "usage_peak_cas"}

(***************************************************************************)
(* C29.  The manager's peakUsage never decreases, is >= the total of the   *)
(* used bytes whenever no AllocateFromZone is between its bump and its     *)
(* return, and never exceeds the largest value the true total of the used  *)
(* bytes of all zones has had at a single instant, in every interleaving   *)
(* of AllocateFromZone and DeallocateToZone on different zones.            *)
(* Violated: CalculateActualUsage reads the zones one after the other; it  *)
(* adds FrameTemp before another thread returns 4 MiB to it and Debug      *)
(* after that thread has carved 4 MiB from it: 12 MiB when the zones never *)
(* held more than 8.                                                       *)
(***************************************************************************)
C29_ManagerPeakTracksTotal ==
    /\ [][peakUsage_' >= peakUsage_]_vars
    /\ []((\A t \in Threads : ~UpdatingPeak(t)) => peakUsage_ >= SumOfUsedBytes(0))
    /\ [](peakUsage_ <= maxTotal)


\* thread t runs the pass of the loop that tests the request against the
\* cursor it loads
TestsRequest(t) == pc[t] = "alloc_load" /\ pc'[t] # "alloc_load"

(***************************************************************************)
(* C30.  Allocate returns null whenever size > capacity - cursor, for      *)
(* every size of the machine word, sizes close to the maximum included:    *)
(* alignedOffset + size is never accepted after wrapping modulo 2^w.       *)
(* Violated: with the cursor past 50, a size of 2^w - 50 wraps the sum to  *)
(* a value below the capacity and the request is accepted.                 *)
(***************************************************************************)
C30_OversizedRequestRejected ==
    [][\A t \in Threads :
        (TestsRequest(t) /\ size[t] > GetTotalMemory - GetUsedMemory) =>
            /\ pc'[t] = "done"
            /\ ret'[t] = NULL
            /\ StatsUnchanged]_vars


\* the product elementSize * elementCount as a number, not as a size_t
TrueProduct(args) == args[1] * args[2]

(***************************************************************************)
(* C31.  AllocateFromZone(zone, size) returns null with no mutation        *)
(* whenever size > capacity - cursor, for every size of the machine word:  *)
(* cursor + size is never accepted after wrapping modulo 2^w; and the size *)
(* CreatePoolAllocator passes on is the one of the product                 *)
(* elementSize * elementCount itself, never of the product wrapped.        *)
(* Violated: with the cursor at 4 MiB a size 1 MiB below the largest       *)
(* size_t is accepted; elementSize 2 MiB times an elementCount that wraps  *)
(* the product to 2 MiB is passed on as 2 MiB.                             *)
(***************************************************************************)
C31_ZoneRequestNeverWraps ==
    [][\A t \in Threads :
        /\ (Bumps(t) /\ op[t] = "AllocateFromZone"
                /\ size[t] > zones_[zone[t]].totalSize - zones_[zone[t]].offset) =>
               (pc'[t] = "done" /\ ret'[t] = NULL /\ Usage' = Usage)
        /\ (Bumps(t) /\ op[t] = "CreatePoolAllocator") =>
               /\ size[t] = AdjustToRecommended(TrueProduct(requested[t]), "Pool")
               /\ size[t] > zones_[zone[t]].totalSize - zones_[zone[t]].offset =>
                      (pc'[t] = "done" /\ ret'[t] = NULL /\ Usage' = Usage)]_vars


(***************************************************************************)
(* C32.  Whenever a Create*Allocator call returns null, the cursor and the *)
(* used bytes of the zone are the same as before the call: no bytes are    *)
(* carved from a zone without a handle that owns them being returned.      *)
(* Violated: every Create*Allocator ends in return nullptr, after a carve  *)
(* that succeeded as well; the zone's cursor and used bytes stay advanced. *)
(***************************************************************************)
C32_NullCreateLeavesZone ==
    \A t \in Threads :
        (pc[t] = "done" /\ op[t] \in CreateOps /\ ret[t] = NULL) =>
            Usage[zone[t]] = entry[t].usage[zone[t]]


(***************************************************************************)
(* C33.  For every zone, in every state reached after Initialize by any    *)
(* interleaving of AllocateFromZone and DeallocateToZone with any sizes,   *)
(* usedBytes <= cursor <= capacity, and DeallocateToZone never takes       *)
(* usedBytes below 0 (never wraps it to a larger value).                   *)
(* Violated: after 4 MiB were carved and returned, a size 1 MiB below the  *)
(* largest size_t wraps the cursor to 3 MiB and is added to the used       *)
(* bytes whole.                                                            *)
(***************************************************************************)
C33_UsedWithinCursorWithinCapacity ==
    /\ [](\A z \in MemoryZone :
            /\ zones_[z].usedSize <= zones_[z].offset
            /\ zones_[z].offset <= zones_[z].totalSize)
    /\ [][\A t \in Threads :
            Releases(t) => zones_'[zone[t]].usedSize <= zones_[zone[t]].usedSize]_vars


(***************************************************************************)
(* C34.  While the manager is not initialized (before the first            *)
(* Initialize, after an Initialize that failed, after Shutdown),           *)
(* AllocateFromZone(zone, size) with size > 0 returns null for every zone: *)
(* no pointer into a released or never reserved block is handed out.       *)
(* Violated: AllocateFromZone does not read initialized_ and Shutdown      *)
(* leaves the zone table as it is; after Shutdown the call carves from a   *)
(* zone of the released block.                                             *)
(***************************************************************************)
C34_NoCarveWhileNotInitialized ==
    [][\A t \in Threads :
        (Bumps(t) /\ op[t] = "AllocateFromZone" /\ ~initialized_ /\ size[t] > 0) =>
            (pc'[t] = "done" /\ ret'[t] = NULL)]_vars


\* thread t completes an Initialize that found the zone table of an earlier
\* initialization: the manager was shut down in between
Reinitializes(t) ==
    /\ pc[t] = "init_zones" /\ pc'[t] = "done" /\ initialized_'
    /\ \E z \in MemoryZone : entry[t].before.zones[z].totalSize > 0

\* no byte of zone z lies outside the reserved block; a zone of capacity 0
\* has no byte
RangeInBlock(z) == zones_[z].totalSize = 0 \/ ZoneInBlock(z)

(***************************************************************************)
(* C35.  After Shutdown followed by a successful Initialize(budget2),      *)
(* every zone, the zones budget2 does not list included, has cursor 0 and  *)
(* used bytes 0 and a range inside the newly reserved block: no zone keeps *)
(* a base address, capacity or cursor of the previous initialization.      *)
(* Violated: InitializeZones writes the zones the budget lists and no      *)
(* other, and Shutdown leaves zones_ alone; a zone budget2 does not list   *)
(* keeps its old range and cursor.                                         *)
(***************************************************************************)
C35_ReinitializeResetsEveryZone ==
    [][\A t \in Threads :
        Reinitializes(t) =>
            \A z \in MemoryZone :
                /\ zones_'[z].offset = 0
                /\ zones_'[z].usedSize = 0
                /\ RangeInBlock(z)']_vars


\* thread t calls UnregisterAllocator and the call returns
Unregisters(t) == pc[t] = "idle" /\ op'[t] = "UnregisterAllocator"

(***************************************************************************)
(* C36.  After UnregisterAllocator(a) returns the registry holds no record *)
(* that references a, whatever RegisterAllocator and UnregisterAllocator   *)
(* calls came before, registering a more than once included; and           *)
(* GetGlobalStats().allocatorCount is the number of records held.          *)
(* Violated: UnregisterAllocator erases the first record find_if returns   *)
(* and no other; an allocator registered twice is still referenced after   *)
(* it was unregistered.                                                    *)
(***************************************************************************)
C36_UnregisterRemovesEveryRecord ==
    /\ [][\A t \in Threads :
            Unregisters(t) => RecordsOf(allocators_', requested'[t][1]) = {}]_vars
    /\ [](GetGlobalStats.allocatorCount = Len(allocators_))


\* thread t returns from Initialize
InitializeReturns(t) == pc[t] # "done" /\ pc'[t] = "done" /\ op'[t] = "Initialize"

(***************************************************************************)
(* C37.  When two threads call Initialize at the same time on a manager    *)
(* that is not initialized, the OS reservation is invoked once: never      *)
(* while a reserved block is held; both calls return true (a call returns  *)
(* false only with no block in the manager); the block of the manager is   *)
(* never overwritten but by Shutdown, and once Shutdown has returned no    *)
(* block is left reserved.                                                 *)
(* Violated: both calls read initialized_ as false before either sets it;  *)
(* both reserve, the second assignment of globalMemory_ overwrites the     *)
(* first, and Shutdown releases one block of the two.                      *)
(***************************************************************************)
C37_ConcurrentInitializeReservesOnce ==
    /\ [][osCalls' # osCalls => osLive = {}]_vars
    /\ [][\A t \in Threads :
            (InitializeReturns(t) /\ ret'[t] = Bool(FALSE)) => globalMemory_' = NULL]_vars
    /\ [][(globalMemory_ # NULL /\ globalMemory_' # globalMemory_) =>
            \E t \in Threads : ShutsDown(t)]_vars
    /\ []((~IsInitialized /\ ~Initializing) => osLive = {})


\* the compare-exchange of thread t fails and its loop starts over
CasFails(t) == pc[t] = "alloc_cas" /\ pc'[t] = "alloc_load"

\* it fails because another call has moved the cursor since t loaded it
LosesRace(t) == CasFails(t) /\ m_offset # currentOffset[t]

(***************************************************************************)
(* C38.  The CAS-retry counter of the StackAllocator is the number of      *)
(* failed compare-exchange attempts of Allocate since construction: each   *)
(* time an Allocate loses the race on the cursor and restarts the counter  *)
(* rises by one, and it changes at no other step.                          *)
(* Violated: no statement of Allocate writes m_casRetryCount; it is 0      *)
(* after any number of lost races.                                         *)
(***************************************************************************)
C38_RetryCounterCountsFailures ==
    [][/\ \A t \in Threads :
            LosesRace(t) => m_casRetryCount' = m_casRetryCount + 1
       /\ m_casRetryCount' # m_casRetryCount =>
            /\ \E t \in Threads : CasFails(t)
            /\ m_casRetryCount' = m_casRetryCount + 1]_vars


\* thread t takes the last step of an Allocate that succeeded, in a build
\* with debug headers
WritesHeader(t) ==
    /\ pc[t] \in {"peak_load", "peak_cas"} /\ pc'[t] = "done"
    /\ headerSize > 0

(***************************************************************************)
(* C39.  With debug headers enabled, every successful Allocate writes its  *)
(* header to the headerSize bytes immediately before the pointer it        *)
(* returns, [ptr - headerSize, ptr), for every alignment and every cursor, *)
(* alignment padding included, and the header lies inside the range the    *)
(* allocation reserved.                                                    *)
(* Violated: the header is written at m_memory + currentOffset, before the *)
(* padding; with padding > 0 it ends padding bytes before the pointer.     *)
(***************************************************************************)
C39_HeaderPrecedesPointer ==
    [][\A t \in Threads :
        WritesHeader(t) =>
            LET header == DebugHeader(t)
            IN  /\ header.ptr = ret'[t] - headerSize
                /\ header.ptr >= m_memory + currentOffset[t]
                /\ header.ptr + headerSize <= m_memory + newOffset[t]]_vars


(***************************************************************************)
(* C40.  With debug headers enabled, the allocation ids written into the   *)
(* headers of any two successful Allocate calls made since construction    *)
(* are distinct, in every interleaving of concurrent Allocate calls: no    *)
(* call writes an id that a header was given before.                       *)
(* Violated: the id is m_allocationCount read again after the fetch_add;   *)
(* two calls that both increment before either reads write the same id.    *)
(***************************************************************************)
C40_AllocationIdsDistinct ==
    [][\A t \in Threads :
        WritesHeader(t) => DebugHeader(t).allocId \notin allocIds]_vars

====
